---- MODULE Spec2Model ----
(***************************************************************************)
(* Meteor impact demo.  Spec, SpecLive: src/src/app.js, class App,         *)
(* current revision (lines 1-1478).  SpecMain: the legacy implementation   *)
(* in src/main.js, Arcade mode.  The model follows one spatial axis        *)
(* through the centre of the Earth: a THREE.Vector3 is its coordinate on   *)
(* that axis, length() is the absolute value and normalize() the sign.     *)
(*                                                                         *)
(* Numbers are fixed-point integers:                                       *)
(*   display length     1 LU  = 1e-5 scene unit (10 m)                     *)
(*   display velocity   1     = 1e-6 scene unit per tick / per time unit   *)
(*   SI length          1     = 1 m                                        *)
(*   SI velocity        1     = 1 cm/s                                     *)
(*   time               1     = 1 ms    (ttl, effect age, frame interval)  *)
(*   opacity            1     = 1/2000  (0.5 * dt seconds = dt ms / 2000)  *)
(*   simSpeed           1     = multiplier 1.0                             *)
(*   mass               1     = 1 kg,  diameter 1 = 0.1 m                  *)
(*   energy             1     = 1 MJ,  TNT 1 = 1 t of TNT (4184 MJ)        *)
(* Division truncates toward zero.                                         *)
(***************************************************************************)
EXTENDS Integers, Sequences, FiniteSets, TLC

\* ---------------------------------------------------------------- bounds
MaxTicks == 4
MaxEvents == 3
MaxMeteors == 2

\* ------------------------------------------------------ program constants
earthRadius == 637100
ImpactMargin == 20000
EscapeDistance == 1000000000
steps == 2000
gravityStrength == 20000
SCENE_SCALE == 10
GM == 398591
DefaultTtl == 8000
ShootTtl == 800000
OpacityOne == 2000
TotalLife == 2000
CameraInit == 1529700

\* inputs the UI and the catalog can deliver
SimSpeedSet == {0, 1, 100}
SpeedSet == {50000, 3000000}
CameraSet == {CameraInit, 680000}
CursorSet == {0, 2000000}
FrameMsSet == {1000, 7000}
SizeSet == {5, 0}
CatalogSet == {[size |-> 20, velocity |-> 20]}

\* ------------------------------------------------------------ arithmetic
Abs(x) == IF x < 0 THEN -x ELSE x

Sign(x) == IF x > 0 THEN 1 ELSE IF x < 0 THEN -1 ELSE 0

Max(a, b) == IF a >= b THEN a ELSE b

Trunc(a, b) == IF a >= 0 THEN a \div b ELSE -((-a) \div b)

\* gravityStrength / (r*r), r in LU, result in 1e-6 scene units
\* (no flooring of r in the code: below 0.1 scene unit the value saturates)
ArcadeG(r) ==
    IF r >= 100000 THEN (((gravityStrength * 100000) \div r) * 100000) \div r
    ELSE IF r >= 10000 THEN ((((gravityStrength * 100000) \div r) * 1000) \div r) * 100
    ELSE gravityStrength * 100

\* ------------------------------------------------- updatePredictedImpact
\* One iteration of the for loop (app.js:1130-1135).  st = [pos, v, i, stop].
\* dt = 0.02 * simSpeed; v.add(accel*dt); pos.add(v*dt)
PredMove(pos, v, simSpeed) ==
    LET r     == Abs(pos)
        accel == -Sign(pos) * ArcadeG(r)
        v2    == v + Trunc(accel * 2 * simSpeed, 100)
    IN  [pos |-> pos + Trunc(v2 * 2 * simSpeed, 1000), v |-> v2]

\* the two exits of the loop body, in the order of the code
PredExit(pos) ==
    IF Abs(pos) < earthRadius + ImpactMargin THEN "hit"
    ELSE IF Abs(pos) > EscapeDistance THEN "escape"
    ELSE "run"

PredStep(st, simSpeed) ==
    LET nx == PredMove(st.pos, st.v, simSpeed)
    IN  [pos |-> nx.pos, v |-> nx.v, i |-> st.i + 1, stop |-> PredExit(nx.pos)]

\* The iterations are evaluated in blocks of LoopBlock, and the blocks in
\* groups of LoopBlock, which keeps the nesting of the evaluation shallow;
\* the iterations run are those of the single for loop.
LoopBlock == 13

\* variant of PredInner: the break after a hit is missing
RECURSIVE PredInnerNoBreak(_, _, _)
PredInnerNoBreak(st, simSpeed, n) ==
    IF n = 0 \/ st.stop = "escape" THEN st
    ELSE PredInnerNoBreak(PredStep(st, simSpeed), simSpeed, n - 1)

RECURSIVE PredInner(_, _, _)
PredInner(st, simSpeed, n) ==
    IF n = 0 \/ st.stop # "run" THEN st
    ELSE PredInner(PredStep(st, simSpeed), simSpeed, n - 1)

\* b blocks of at most LoopBlock iterations each, up to iteration lim
RECURSIVE PredBlocks(_, _, _, _)
PredBlocks(st, simSpeed, lim, b) ==
    IF b = 0 \/ st.i >= lim \/ st.stop # "run" THEN st
    ELSE LET n == IF lim - st.i < LoopBlock THEN lim - st.i ELSE LoopBlock
         IN  PredBlocks(PredInner(st, simSpeed, n), simSpeed, lim, b - 1)

\* variant of PredLoop: for(let i=0;i<=steps;i++)
RECURSIVE PredLoopOffByOne(_, _)
PredLoopOffByOne(st, simSpeed) ==
    IF st.i > steps \/ st.stop # "run" THEN st
    ELSE PredLoopOffByOne(PredBlocks(st, simSpeed, steps + 1, LoopBlock),
                          simSpeed)

\* for(let i=0;i<steps;i++) with its two breaks
RECURSIVE PredLoop(_, _)
PredLoop(st, simSpeed) ==
    IF st.i >= steps \/ st.stop # "run" THEN st
    ELSE PredLoop(PredBlocks(st, simSpeed, steps, LoopBlock), simSpeed)

\* The whole forward simulation for one (origin, cursor, speed, simSpeed):
\* hit/no hit, the hit point, the number of iterations run, why it stopped.
PredictRun(origin, cursorPos, speed, simSpeed) ==
    LET dir == Sign(cursorPos - origin)
        fin == PredLoop([pos |-> origin, v |-> dir * speed, i |-> 0, stop |-> "run"],
                        simSpeed)
    IN  [hit    |-> fin.stop = "hit",
         hitPos |-> IF fin.stop = "hit" THEN fin.pos ELSE 0,
         endPos |-> fin.pos,
         nsteps |-> fin.i,
         stop   |-> IF fin.stop = "run" THEN "exhausted" ELSE fin.stop]

PredInputs == CameraSet \X CursorSet \X SpeedSet \X SimSpeedSet

\* the runs of the predictor for all the inputs of the model
PredTable == [i \in PredInputs |-> PredictRun(i[1], i[2], i[3], i[4])]

\* The first exit of the trajectory read off the positions alone: the first
\* step k <= steps whose position is inside the impact radius or beyond the
\* escape distance, whichever the trajectory meets first.
RECURSIVE FirstExit(_, _, _, _, _)
FirstExit(pos, v, simSpeed, k, n) ==
    IF n = 0 THEN [k |-> k, pos |-> pos, v |-> v, kind |-> "none"]
    ELSE LET nx == PredMove(pos, v, simSpeed)
         IN  IF Abs(nx.pos) < earthRadius + ImpactMargin
             THEN [k |-> k + 1, pos |-> nx.pos, v |-> nx.v, kind |-> "hit"]
             ELSE IF Abs(nx.pos) > EscapeDistance
             THEN [k |-> k + 1, pos |-> nx.pos, v |-> nx.v, kind |-> "escape"]
             ELSE FirstExit(nx.pos, nx.v, simSpeed, k + 1, n - 1)

RECURSIVE FirstExitBlocks(_, _, _)
FirstExitBlocks(st, simSpeed, b) ==
    IF b = 0 \/ st.kind # "none" \/ st.k >= steps THEN st
    ELSE LET n == IF steps - st.k < LoopBlock THEN steps - st.k ELSE LoopBlock
         IN  FirstExitBlocks(FirstExit(st.pos, st.v, simSpeed, st.k, n),
                             simSpeed, b - 1)

RECURSIVE FirstExitWithin(_, _)
FirstExitWithin(st, simSpeed) ==
    IF st.kind # "none" \/ st.k >= steps THEN st
    ELSE FirstExitWithin(FirstExitBlocks(st, simSpeed, LoopBlock), simSpeed)

TrajectoryTable ==
    [i \in PredInputs |->
        FirstExitWithin([k |-> 0, pos |-> i[1], v |-> Sign(i[2] - i[1]) * i[3],
                         kind |-> "none"], i[4])]

\* ------------------------------------------------------------------ state
VARIABLES
    meteors,        \* this.meteors: the live set, in array order
    impactEffects,  \* this.impactEffects
    impactCount,    \* this.impactCount
    simSpeed,       \* this.simSpeed
    realistic,      \* this.realistic
    paused,         \* this.paused
    camera,         \* this.camera.position
    cursor,         \* this.cursor.position
    speed,          \* value of the #speed slider
    marker,         \* this.predictedImpactMarker: [visible, position]
    scene,          \* projectile and effect objects attached to the scene or the page
    labels,         \* this.labels: the labels updateLabels repositions
    spawns,         \* calls of spawnSelectedAsteroid awaiting the asteroid details
    nextId,         \* identity given to the next projectile
    ticks,          \* animation frames run so far
    events,         \* UI events handled so far
    lastImpacts,    \* impact events resolved by the latest frame
    resolved,       \* ids handed to createImpact since construction, in order
    removed,        \* <<id, cause>> of every projectile dropped from the live set
    impactedSinceReset, \* ids removed by impact since the last Reset
    seenFading,     \* ids seen live and fading at the end of a frame
    lastFaded,      \* projectiles the latest frame removed at opacity 0
    lastFrame,      \* the latest frame: whether it ran the simulation
    pred,           \* the latest run of the predictor: inputs and outcome
    predLog,        \* inputs and outcomes of all predictor runs so far
    predFrameOk,    \* the latest predictor call left everything but the marker alone
    predRuns,       \* PredTable, evaluated once at start and never changed
    firstExits,     \* TrajectoryTable, evaluated once at start and never changed
    resolver,       \* the impact energy computation run on its own inputs
    loader,         \* loadHighResEarthTexture: its closure and the Earth's map
    launcher,       \* a run of start.bat or run.sh
    conv,           \* a position as a double, before and after a Realistic tick
    catalog         \* fetchAsteroidList: the list, neoPage and the requests in flight

vars == <<meteors, impactEffects, impactCount, simSpeed, realistic,
          paused, camera, cursor, speed, marker, scene, labels, spawns,
          nextId, ticks, events, lastImpacts, resolved, removed, impactedSinceReset, seenFading,
          lastFaded, lastFrame, pred, predLog, predFrameOk, predRuns,
          firstExits, resolver, loader, launcher, conv, catalog>>

\* the state of the application proper
appVars == <<meteors, impactEffects, impactCount, simSpeed, realistic,
             paused, camera, cursor, speed, marker, scene, labels,
             spawns, nextId, ticks, events, lastImpacts, resolved, removed, impactedSinceReset,
             seenFading, lastFaded, lastFrame, pred, predLog, predFrameOk,
             predRuns, firstExits>>

\* the state of the parts modelled on their own
aux == <<resolver, loader, launcher, conv, catalog>>

NoPred == [in |-> <<0, 0, 0, 0, FALSE>>, called |-> FALSE,
           hit |-> FALSE, hitPos |-> 0, nsteps |-> 0, stop |-> "none",
           nMeteors |-> 0]

\* init(): createLabel('Earth', ...) pushes the first entry of this.labels
EarthLabel == <<"earth", 0>>

\* the entry createLabel pushes for a projectile
MeteorLabel(m) == <<"meteor", m.id>>

\* no call of spawnSelectedAsteroid is suspended at its await; fromStale
\* collects the projectiles pushed by calls that a Reset overtook
NoSpawns == [pending |-> <<>>, fromStale |-> {}]

NoReads == [simSpeed |-> {}, model |-> {}, predModel |-> "none"]

NoFrame == [ran |-> FALSE, n |-> 0, reads |-> NoReads]

\* the scene after construction, before the predictor has run, with the
\* camera at cam
InitSceneAt(cam) ==
    /\ meteors = <<>>
    /\ impactEffects = <<>>
    /\ impactCount = 0
    /\ simSpeed = 1
    /\ realistic = FALSE
    /\ paused = FALSE
    /\ camera = cam
    /\ cursor = 0
    /\ speed = 50000
    /\ marker = [visible |-> FALSE, position |-> 0]
    /\ scene = {}
    /\ labels = {EarthLabel}
    /\ spawns = NoSpawns
    /\ nextId = 1
    /\ ticks = 0
    /\ events = 0
    /\ lastImpacts = <<>>
    /\ resolved = <<>>
    /\ removed = {}
    /\ impactedSinceReset = {}
    /\ seenFading = {}
    /\ lastFaded = {}
    /\ lastFrame = NoFrame
    /\ pred = NoPred
    /\ predLog = {}
    /\ predFrameOk = TRUE

InitScene == InitSceneAt(CameraInit)

\* no call of loadHighResEarthTexture yet: the Earth has its start-up map
NoLoad ==
    [calls |-> 0, prompt |-> [cancelled |-> TRUE, text |-> <<>>],
     urls |-> <<>>, tried |-> 0, pending |-> FALSE, attempts |-> <<>>,
     failed |-> <<>>, applied |-> <<>>, alerts |-> 0, map |-> <<>>]

\* no start script running
NoLaunch ==
    [script |-> "none", opener |-> "none", logExists |-> FALSE, pc |-> "done",
     COUNT |-> 0, polls |-> 0, up |-> FALSE, out |-> <<>>]

\* no position under conversion
NoConv == [n |-> 0, p |-> [m |-> <<>>, e |-> 0], q |-> [m |-> <<>>, e |-> 0],
           ticked |-> FALSE]

\* no listing fetched yet (neoPage and asteroidList are undefined until the
\* first call; the code reads them as 0 and [])
NoCatalog ==
    [neoPage |-> 0, asteroidList |-> <<>>, inflight |-> <<>>, listing |-> 0,
     calls |-> 0]

\* the parts modelled on their own, idle
InitAux ==
    /\ resolver = [queue |-> <<>>, i |-> 1, impactCount |-> 0, shown |-> <<>>]
    /\ loader = NoLoad
    /\ catalog = NoCatalog
    /\ launcher = NoLaunch
    /\ conv = NoConv

Init ==
    /\ InitScene
    /\ InitAux
    /\ predRuns = PredTable
    /\ firstExits = TrajectoryTable

Predict(origin, cursorPos, spd, ss) == predRuns[<<origin, cursorPos, spd, ss>>]

\* The App object as updatePredictedImpact sees it (a method of App: it can
\* reach every field).
This ==
    [meteors |-> meteors, impactEffects |-> impactEffects,
     impactCount |-> impactCount, simSpeed |-> simSpeed,
     realistic |-> realistic, paused |-> paused, camera |-> camera,
     cursor |-> cursor, speed |-> speed, marker |-> marker]

\* variant of updatePredictedImpact: const origin = this.camera.position
\* without .clone(), so that the loop advances the camera itself
updatePredictedImpactNoClone(app) ==
    LET run == Predict(app.camera, app.cursor, app.speed, app.simSpeed)
    IN  [app EXCEPT !.camera = run.endPos,
                    !.marker =
            IF run.hit THEN [visible |-> TRUE, position |-> run.hitPos]
            ELSE [visible |-> FALSE, position |-> app.marker.position]]

\* variant of updatePredictedImpact: hitPos kept in a field of the App and
\* never cleared, so that a marker once shown stays shown
updatePredictedImpactSticky(app) ==
    LET run == Predict(app.camera, app.cursor, app.speed, app.simSpeed)
    IN  [app EXCEPT !.marker =
            IF run.hit THEN [visible |-> TRUE, position |-> run.hitPos]
            ELSE [visible |-> app.marker.visible, position |-> app.marker.position]]

\* variant of updatePredictedImpact: the predictor caps this.simSpeed at 1
\* for its own loop by writing the field
updatePredictedImpactCapsSpeed(app) ==
    LET run == Predict(app.camera, app.cursor, app.speed, app.simSpeed)
    IN  [app EXCEPT !.simSpeed = IF app.simSpeed > 1 THEN 1 ELSE app.simSpeed,
                    !.marker =
            IF run.hit THEN [visible |-> TRUE, position |-> run.hitPos]
            ELSE [visible |-> FALSE, position |-> app.marker.position]]

\* updatePredictedImpact(): reads camera, cursor, #speed and simSpeed, works
\* on clones, writes the marker.
updatePredictedImpact(app) ==
    LET run == Predict(app.camera, app.cursor, app.speed, app.simSpeed)
    IN  [app EXCEPT !.marker =
            IF run.hit THEN [visible |-> TRUE, position |-> run.hitPos]
            ELSE [visible |-> FALSE, position |-> app.marker.position]]

\* what the loop of that call did
PredOutcome(app) == Predict(app.camera, app.cursor, app.speed, app.simSpeed)



\* --------------------------------------------------------------- spawning
\* density * volume, density 3000 kg/m^3, volume (4/3)*pi*(size/2)^3
Mass(size) == (size * size * size * 15708) \div 10000

\* speed * 0.6
SceneSpeed(v) == Trunc(v * 6, 10)

\* 1e-6 scene unit per second, times SCENE_SCALE, is 1 m/s = 100 cm/s
VelToSI == 100

\* shootMeteor(): the object pushed on this.meteors
ShotMeteor(id, size) ==
    LET dir0 == Sign(cursor - camera)
        dir  == IF marker.visible THEN Sign(marker.position - camera) ELSE dir0
    IN  [id |-> id, pos |-> camera,
         velocity |-> SceneSpeed(dir * speed),
         physVelocity |-> dir * speed * VelToSI,
         active |-> TRUE, mass |-> Mass(size), size |-> size,
         ttlSet |-> TRUE, ttl |-> ShootTtl, fading |-> FALSE,
         opacity |-> OpacityOne]

\* backOff = Math.min(distanceTo(hitPoint) * 0.25, 5)
MaxBackOff == 500000

\* The spawn position of spawnSelectedAsteroid (app.js:1400-1422) for a ray
\* along the axis: it hits the Earth at its surface, and the projectile is
\* placed backOff from the hit point towards the camera.
SpawnPos(cam) ==
    LET hitPoint == Sign(cam) * earthRadius
        dist     == Abs(cam - hitPoint)
        backOff  == IF Trunc(dist, 4) < MaxBackOff THEN Trunc(dist, 4)
                    ELSE MaxBackOff
    IN  hitPoint - Sign(hitPoint - cam) * backOff

\* spawnSelectedAsteroid(): the object pushed on this.meteors (no ttl field).
\* c: diameter and approach velocity (km/s) of the catalog entry.
CatalogMeteor(id, c) ==
    LET forward  == -Sign(camera)
        spawnPos == SpawnPos(camera)
        aimDir   == IF marker.visible THEN Sign(marker.position - spawnPos)
                    ELSE forward
    IN  [id |-> id, pos |-> spawnPos,
         velocity |-> SceneSpeed(aimDir * c.velocity),
         physVelocity |-> aimDir * c.velocity * 1000 * VelToSI,
         active |-> TRUE, mass |-> Mass(c.size), size |-> c.size,
         ttlSet |-> FALSE, ttl |-> 0, fading |-> FALSE,
         opacity |-> OpacityOne]

\* -------------------------------------------------------------- animate
\* G*earthMass / rmag^2 in cm/s^2, rmag in metres (saturates below 100 km)
RealG(rmag) ==
    LET rkm == rmag \div 1000
    IN  IF rkm >= 100 THEN (((GM * 1000) \div rkm) * 100) \div rkm
        ELSE GM * 10

\* realistic branch (app.js:980-988): semi-implicit Euler, dtInt = 0.02*simSpeed
RealisticStep(m, ss) ==
    LET posMeters == m.pos * SCENE_SCALE
        rmag      == Abs(posMeters)
        g         == -Sign(posMeters) * RealG(rmag)
        pv        == m.physVelocity + Trunc(g * 2 * ss, 100)
        pm2       == posMeters + Trunc(Trunc(pv, 50) * ss, 100)
    IN  [m EXCEPT !.physVelocity = pv, !.pos = Trunc(pm2, SCENE_SCALE)]

\* variant of ArcadeStep: the gravity term is not added to the velocity
ArcadeStepNoGravity(m, ss) ==
    [m EXCEPT !.pos = m.pos + Trunc(m.velocity * ss, 10)]

\* variant of ArcadeStep: the pull grows with the projectile's mass
ArcadeStepWeighs(m, ss) ==
    LET r            == Abs(m.pos)
        gravityAccel == -Sign(m.pos) * ArcadeG(r)
        vel          == m.velocity + gravityAccel * ss * m.mass
        step         == IF Abs(vel) < 10000000 THEN Trunc(vel * ss, 10)
                        ELSE Trunc(vel, 10) * ss
    IN  [m EXCEPT !.velocity = vel, !.pos = m.pos + step]

\* arcade branch (app.js:991-993)
ArcadeStep(m, ss) ==
    LET r            == Abs(m.pos)
        gravityAccel == -Sign(m.pos) * ArcadeG(r)
        vel          == m.velocity + gravityAccel * ss
        step         == IF Abs(vel) < 10000000 THEN Trunc(vel * ss, 10)
                        ELSE Trunc(vel, 10) * ss
    IN  [m EXCEPT !.velocity = vel, !.pos = m.pos + step]

Integrate(m, ss, real) ==
    IF real THEN RealisticStep(m, ss) ELSE ArcadeStep(m, ss)

\* meteor.ttl = meteor.ttl === undefined ? 8.0 : meteor.ttl - dt
TtlStep(m, dt) ==
    IF m.ttlSet THEN [m EXCEPT !.ttl = m.ttl - dt]
    ELSE [m EXCEPT !.ttlSet = TRUE, !.ttl = DefaultTtl]

\* (opacity || 1)
OpacityOr1(o) == IF o = 0 THEN OpacityOne ELSE o

\* variant of FadeStep: meteor.active = false at opacity 0 is missing
FadeStepKeepsActive(m, dt) ==
    LET m1 == IF m.ttl <= 0 THEN [m EXCEPT !.fading = TRUE] ELSE m
    IN  IF m1.fading
        THEN [m1 EXCEPT !.opacity = Max(0, OpacityOr1(m1.opacity) - dt)]
        ELSE m1

\* app.js:997-1005: fading flag, opacity ramp, removal at opacity <= 0
FadeStep(m, dt) ==
    LET m1 == IF m.ttl <= 0 THEN [m EXCEPT !.fading = TRUE] ELSE m
    IN  IF m1.fading
        THEN LET o == Max(0, OpacityOr1(m1.opacity) - dt)
             IN  [m1 EXCEPT !.opacity = o,
                            !.active = IF o <= 0 THEN FALSE ELSE m1.active]
        ELSE m1

\* variant of Penetrates: the margin 0.2 is missing
PenetratesNoMargin(r) == r < earthRadius

\* the impact test uses r, the length read before the integration step
Penetrates(r) == r < earthRadius + ImpactMargin

\* meteor.physVelocity ? physVelocity.length() : velocity.length()*SCENE_SCALE
\* (physVelocity is always an object, so the first branch is the one taken)
SpeedAtImpact(m, real) == Abs(m.physVelocity)

\* (meteor.mass || 1)
MassOr1(mass) == IF mass = 0 THEN 1 ELSE mass

\* variant of KineticEnergy: the factor 0.5 is missing
KineticEnergyNoHalf(mass, spd) ==
    LET kms == spd \div 100000
    IN  MassOr1(mass) * kms * kms

\* 0.5 * (mass || 1) * speed^2, speed in cm/s, result in MJ
KineticEnergy(mass, spd) ==
    LET kms == spd \div 100000
    IN  (MassOr1(mass) * kms * kms) \div 2

\* ke / 4.184e9, in tons of TNT
TntEquivalent(ke) == ke \div 4184

\* variant of MarkImpacted: meteor.active = false is missing
MarkImpactedStaysActive(m) == m

\* meteor.active = false, first statement of the impact branch
MarkImpacted(m) == [m EXCEPT !.active = FALSE]

\* One pass of the forEach body over one projectile (app.js:962-1020).
\* Returns the projectile after the pass and, when the impact branch ran,
\* the impact event.
UpdateMeteor(m, dt, ss, real) ==
    IF ~m.active THEN [m |-> m, impact |-> FALSE, faded |-> FALSE, ev |-> <<>>]
    ELSE
    LET r   == Abs(m.pos)
        m1  == Integrate(m, ss, real)
        m2  == TtlStep(m1, dt)
        m3  == FadeStep(m2, dt)
        hit == Penetrates(r)
        spd == SpeedAtImpact(m3, real)
        ke  == KineticEnergy(m3.mass, spd)
    IN  [m      |-> IF hit THEN MarkImpacted(m3) ELSE m3,
         impact |-> hit,
         faded  |-> ~m3.active,
         ev     |-> IF hit
                    THEN <<[id |-> m.id, position |-> m3.pos, size |-> m.size,
                            mass |-> m3.mass, speed |-> spd, ke |-> ke,
                            keTons |-> TntEquivalent(ke), realistic |-> real,
                            velocity |-> m3.velocity,
                            physVelocity |-> m3.physVelocity]>>
                    ELSE <<>>]

RECURSIVE Flatten(_)
Flatten(ss) == IF ss = <<>> THEN <<>> ELSE Head(ss) \o Flatten(Tail(ss))

\* createImpact(position, size): the effect pushed on this.impactEffects
NewEffect(ev) ==
    [id |-> ev.id, center |-> ev.position, size |-> ev.size, age |-> 0]

\* what a spawn attaches: the mesh (scene.add) and the label element
\* (createLabel appends it to document.body)
MeteorObjects(m) == {<<"mesh", m.id>>, <<"label", m.id>>}

\* what createImpact attaches: the ring (app.js:1214) and the mushroom group
\* (app.js:1298)
EffectObjects(e) == {<<"ring", e.id>>, <<"mushroom", e.id>>}

\* what resetScene detaches: m.mesh and m.label.element of every projectile,
\* e.mesh of every effect
ResetDetached(ms, effs) ==
    UNION {MeteorObjects(ms[i]) : i \in 1..Len(ms)}
        \cup {<<"ring", effs[j].id>> : j \in 1..Len(effs)}


\* app.js:1024-1109: effects age by dt and are dropped once the ring is
\* transparent and the mushroom is gone (both at age >= totalLife = 2 s)
EffectStep(e, dt) ==
    [e EXCEPT !.age = IF e.age + dt >= TotalLife THEN TotalLife ELSE e.age + dt]

EffectAlive(e) == e.age < TotalLife

\* variant of SimulationRuns: animate never reads this.paused
SimulationRunsAlways(p) == TRUE

\* if(!this.paused)
SimulationRuns(p) == ~p

IsActive(m) == m.active

\* variant of FilterActive: the filter is missing
FilterActiveKeepsAll(ms) == ms

\* this.meteors = this.meteors.filter(m=>m.active)
FilterActive(ms) == SelectSeq(ms, IsActive)

\* The values of this.simSpeed and this.realistic the statements of one
\* animate read: simSpeed for dt (app.js:932) and in the predictor (:1127)
\* from the App as the frame finds it (app0), then simSpeed and realistic
\* once per active projectile (:978-993) from the App as the predictor left
\* it (app1).  The predictor's integrator is the Arcade one whatever the
\* flag says (:1129-1132).
FrameReads(app0, app1, ms) ==
    LET upd == IF SimulationRuns(app1.paused)
               THEN {i \in 1..Len(ms) : ms[i].active} ELSE {}
    IN  [simSpeed  |-> {app0.simSpeed} \cup {app1.simSpeed : i \in upd},
         model     |-> {IF app1.realistic THEN "realistic" ELSE "arcade" :
                          i \in upd},
         predModel |-> "arcade"]

\* animate(time), dtMs = time - this._lastFrameTime
Frame(dtMs) ==
    /\ LET dt   == dtMs * simSpeed
           app1 == updatePredictedImpact(This)
           run  == PredOutcome(This)
           ms   == app1.meteors
           res  == [i \in 1..Len(ms) |->
                       UpdateMeteor(ms[i], dt, app1.simSpeed, app1.realistic)]
           evs  == Flatten([i \in 1..Len(ms) |-> res[i].ev])
           effs == app1.impactEffects \o [j \in 1..Len(evs) |-> NewEffect(evs[j])]
           effs2 == [j \in 1..Len(effs) |-> EffectStep(effs[j], dt)]
       IN  /\ marker' = app1.marker
           /\ predFrameOk' = /\ app1.meteors = meteors
                             /\ app1.impactEffects = impactEffects
                             /\ app1.impactCount = impactCount
                             /\ app1.camera = camera
                             /\ app1.cursor = cursor
                             /\ app1.simSpeed = simSpeed
                             /\ app1.realistic = realistic
                             /\ app1.paused = paused
                             /\ app1.speed = speed
           /\ pred' = [in |-> <<camera, cursor, speed, simSpeed, realistic>>,
                       called |-> TRUE,
                       hit |-> app1.marker.visible,
                       hitPos |-> IF app1.marker.visible
                                  THEN app1.marker.position ELSE 0,
                       nsteps |-> run.nsteps, stop |-> run.stop,
                       nMeteors |-> Len(meteors)]
           /\ predLog' = predLog \cup {pred'}
           /\ lastFrame' = [ran |-> SimulationRuns(app1.paused), n |-> Len(ms),
                             reads |-> FrameReads(This, app1, ms)]
           /\ simSpeed' = app1.simSpeed
           /\ realistic' = app1.realistic
           /\ paused' = app1.paused
           /\ camera' = app1.camera
           /\ cursor' = app1.cursor
           /\ speed' = app1.speed
           /\ IF ~SimulationRuns(app1.paused)
              THEN /\ meteors' = ms
                   /\ impactEffects' = app1.impactEffects
                   /\ scene' = scene
                   /\ labels' = labels
                   /\ impactCount' = app1.impactCount
                   /\ resolved' = resolved
                   /\ removed' = removed
                   /\ impactedSinceReset' = impactedSinceReset
                   /\ seenFading' = seenFading
                   /\ lastFaded' = {}
                   /\ lastImpacts' = <<>>
              ELSE /\ meteors' = FilterActive([i \in 1..Len(ms) |-> res[i].m])
                   /\ impactEffects' = SelectSeq(effs2, EffectAlive)
                   /\ scene' =
                        ((scene \ UNION {MeteorObjects(ms[i]) :
                                     i \in {k \in 1..Len(ms) :
                                              res[k].impact \/ res[k].faded}})
                           \cup UNION {EffectObjects(NewEffect(evs[j])) :
                                         j \in 1..Len(evs)})
                          \ UNION {EffectObjects(effs2[j]) :
                                     j \in {k \in 1..Len(effs2) :
                                              ~EffectAlive(effs2[k])}}
                   /\ labels' = labels \ {MeteorLabel(ms[i]) :
                                           i \in {k \in 1..Len(ms) :
                                              res[k].impact \/ res[k].faded}}
                   /\ lastFaded' = {[before |-> ms[i], after |-> res[i].m] :
                                      i \in {k \in 1..Len(ms) : res[k].faded}}
                   /\ seenFading' = seenFading
                        \cup {res[i].m.id :
                                i \in {k \in 1..Len(ms) :
                                         res[k].m.active /\ res[k].m.fading}}
                   /\ impactCount' = app1.impactCount + Len(evs)
                   /\ lastImpacts' = evs
                   /\ resolved' = resolved \o [j \in 1..Len(evs) |-> evs[j].id]
                   /\ impactedSinceReset' = impactedSinceReset
                        \cup {evs[j].id : j \in 1..Len(evs)}
                   /\ removed' = removed
                        \cup {<<res[i].m.id, "impact">> :
                                i \in {k \in 1..Len(ms) : res[k].impact}}
                        \cup {<<res[i].m.id, "fade">> :
                                i \in {k \in 1..Len(ms) : res[k].faded}}
    /\ UNCHANGED <<nextId, events, predRuns, firstExits, spawns, aux>>

\* a frame of the bounded exploration
Animate(dtMs) ==
    /\ ticks < MaxTicks
    /\ ticks' = ticks + 1
    /\ Frame(dtMs)

\* ------------------------------------------------------------- UI events
UiEvent == events < MaxEvents /\ events' = events + 1

\* Fire button / KeyF: shootMeteor()
Fire ==
    /\ UiEvent
    /\ nextId <= MaxMeteors
    /\ \E size \in SizeSet :
          /\ meteors' = Append(meteors, ShotMeteor(nextId, size))
          /\ scene' = scene \cup MeteorObjects(ShotMeteor(nextId, size))
          /\ labels' = labels \cup {MeteorLabel(ShotMeteor(nextId, size))}
    /\ nextId' = nextId + 1
    /\ UNCHANGED <<impactEffects, impactCount, simSpeed, realistic, paused,
                   camera, cursor, speed, marker, ticks, lastImpacts,
                   resolved, removed, impactedSinceReset, seenFading,
                   lastFaded, lastFrame, pred, predLog, predFrameOk,
                   predRuns, firstExits, spawns, aux>>

\* Spawn button / KeyG: spawnSelectedAsteroid(), from the arrival of the
\* asteroid details on
SpawnSelectedAsteroid ==
    /\ UiEvent
    /\ nextId <= MaxMeteors
    /\ \E c \in CatalogSet :
          /\ meteors' = Append(meteors, CatalogMeteor(nextId, c))
          /\ scene' = scene \cup MeteorObjects(CatalogMeteor(nextId, c))
          /\ labels' = labels \cup {MeteorLabel(CatalogMeteor(nextId, c))}
    /\ nextId' = nextId + 1
    /\ UNCHANGED <<impactEffects, impactCount, simSpeed, realistic, paused,
                   camera, cursor, speed, marker, ticks, lastImpacts,
                   resolved, removed, impactedSinceReset, seenFading,
                   lastFaded, lastFrame, pred, predLog, predFrameOk,
                   predRuns, firstExits, spawns, aux>>

\* Reset button: resetScene()
ResetScene ==
    /\ UiEvent
    /\ meteors' = <<>>
    /\ impactEffects' = <<>>
    /\ impactCount' = 0
    /\ scene' = scene \ ResetDetached(meteors, impactEffects)
    /\ impactedSinceReset' = {}
    /\ removed' = removed \cup {<<meteors[i].id, "reset">> : i \in 1..Len(meteors)}
    /\ spawns' = [spawns EXCEPT !.pending =
                     [k \in 1..Len(@) |-> [@[k] EXCEPT !.beforeReset = TRUE]]]
    /\ UNCHANGED <<simSpeed, realistic, paused, camera, cursor, speed,
                   marker, nextId, ticks, lastImpacts, resolved, seenFading,
                   lastFaded, lastFrame, pred, predLog, predFrameOk,
                   predRuns, firstExits, labels, aux>>

\* Pause button
TogglePause ==
    /\ UiEvent
    /\ paused' = ~paused
    /\ UNCHANGED <<meteors, impactEffects, impactCount, simSpeed, realistic,
                   camera, cursor, speed, marker, scene, nextId, ticks,
                   lastImpacts, resolved, removed, impactedSinceReset,
                   seenFading, lastFaded, lastFrame, pred, predLog,
                   predFrameOk, predRuns, firstExits, labels, spawns, aux>>

\* toggleRealism button
ToggleRealism ==
    /\ UiEvent
    /\ realistic' = ~realistic
    /\ UNCHANGED <<meteors, impactEffects, impactCount, simSpeed, paused,
                   camera, cursor, speed, marker, scene, nextId, ticks,
                   lastImpacts, resolved, removed, impactedSinceReset,
                   seenFading, lastFaded, lastFrame, pred, predLog,
                   predFrameOk, predRuns, firstExits, labels, spawns, aux>>

\* input event of the simSpeed slider
SetSimSpeed(v) ==
    /\ UiEvent
    /\ v # simSpeed
    /\ simSpeed' = v
    /\ UNCHANGED <<meteors, impactEffects, impactCount, realistic, paused,
                   camera, cursor, speed, marker, scene, nextId, ticks,
                   lastImpacts, resolved, removed, impactedSinceReset,
                   seenFading, lastFaded, lastFrame, pred, predLog,
                   predFrameOk, predRuns, firstExits, labels, spawns, aux>>

\* the user drags the speed slider
SetSpeed(v) ==
    /\ UiEvent
    /\ v # speed
    /\ speed' = v
    /\ UNCHANGED <<meteors, impactEffects, impactCount, simSpeed, realistic,
                   paused, camera, cursor, marker, scene, nextId, ticks,
                   lastImpacts, resolved, removed, impactedSinceReset,
                   seenFading, lastFaded, lastFrame, pred, predLog,
                   predFrameOk, predRuns, firstExits, labels, spawns, aux>>

\* onMouseMove: the cursor follows the pointer
MoveCursor(c) ==
    /\ UiEvent
    /\ c # cursor
    /\ cursor' = c
    /\ UNCHANGED <<meteors, impactEffects, impactCount, simSpeed, realistic,
                   paused, camera, speed, marker, scene, nextId, ticks,
                   lastImpacts, resolved, removed, impactedSinceReset,
                   seenFading, lastFaded, lastFrame, pred, predLog,
                   predFrameOk, predRuns, firstExits, labels, spawns, aux>>

\* OrbitControls: the user zooms the camera
MoveCamera(c) ==
    /\ UiEvent
    /\ c # camera
    /\ camera' = c
    /\ UNCHANGED <<meteors, impactEffects, impactCount, simSpeed, realistic,
                   paused, cursor, speed, marker, scene, nextId, ticks,
                   lastImpacts, resolved, removed, impactedSinceReset,
                   seenFading, lastFaded, lastFrame, pred, predLog,
                   predFrameOk, predRuns, firstExits, labels, spawns, aux>>

Next ==
    \/ \E dtMs \in FrameMsSet : Animate(dtMs)
    \/ Fire
    \/ SpawnSelectedAsteroid
    \/ ResetScene
    \/ TogglePause
    \/ ToggleRealism
    \/ \E v \in SimSpeedSet : SetSimSpeed(v)
    \/ \E v \in SpeedSet : SetSpeed(v)
    \/ \E c \in CursorSet : MoveCursor(c)
    \/ \E c \in CameraSet : MoveCamera(c)

Spec == Init /\ [][Next]_vars

\* The simulation left running: the user sets the scene up before the first
\* frame, then frames keep coming (requestAnimationFrame is re-armed at the
\* top of every animate, app.js:929), the Pause button is not pressed and
\* simSpeed stays positive.  Frames are one second apart or follow a long
\* gap (a tab left in the background).  ticks is the parity of the frame
\* number here.
LiveFrameMsSet == {1000, 400000}

AnimateLive(dtMs) ==
    /\ ticks' = (ticks + 1) % 2
    /\ Frame(dtMs)

\* a step that runs a frame: AnimateLive is the only action that changes
\* ticks, and every conjunct of Frame assigns, so it is always enabled
FrameRuns == ticks' = (ticks + 1) % 2

SetupPhase == ~pred.called

NextLive ==
    \/ \E dtMs \in LiveFrameMsSet : AnimateLive(dtMs)
    \/ SetupPhase /\ Fire
    \/ SetupPhase /\ SpawnSelectedAsteroid
    \/ SetupPhase /\ \E v \in SimSpeedSet \ {0} : SetSimSpeed(v)
    \/ SetupPhase /\ \E c \in CursorSet : MoveCursor(c)

SpecLive ==
    /\ Init
    /\ [][NextLive]_vars
    /\ WF_ticks(FrameRuns)

\* ------------------------------------------------------ legacy main.js
\* main.js is the earlier, function-based implementation of the same
\* simulation (its own globals, shootMeteor, spawnSelectedAsteroid, animate
\* and updatePredictedImpact).  It is modelled in Arcade mode, the mode it
\* starts in; its realistic branches are not part of this model.

\* One iteration of the Arcade loop of its updatePredictedImpact
\* (main.js:484-526): RK4 in scene units, dt = 0.02 * simSpeed.
MainAccel(p) == -Sign(p) * ArcadeG(Abs(p))

MainKv(a, ss) == Trunc(a * 2 * ss, 100)

MainKx(v, ss) == Trunc(v * 2 * ss, 1000)

MainPredMove(pos, v, ss) ==
    LET k1v == MainKv(MainAccel(pos), ss)
        k1x == MainKx(v, ss)
        p2  == pos + Trunc(k1x, 2)
        v2  == v + Trunc(k1v, 2)
        k2v == MainKv(MainAccel(p2), ss)
        k2x == MainKx(v2, ss)
        p3  == pos + Trunc(k2x, 2)
        v3  == v + Trunc(k2v, 2)
        k3v == MainKv(MainAccel(p3), ss)
        k3x == MainKx(v3, ss)
        p4  == pos + k3x
        v4  == v + k3v
        k4v == MainKv(MainAccel(p4), ss)
        k4x == MainKx(v4, ss)
        dx  == Trunc(k1x + 2 * k2x + 2 * k3x + k4x, 6)
        dv  == Trunc(k1v + 2 * k2v + 2 * k3v + k4v, 6)
    IN  [pos |-> pos + dx, v |-> v + dv]

\* hit test, then escape test at 1e4 scene units (main.js:523-525)
MainPredStep(st, ss) ==
    LET nx == MainPredMove(st.pos, st.v, ss)
    IN  [pos |-> nx.pos, v |-> nx.v, i |-> st.i + 1, stop |-> PredExit(nx.pos)]

RECURSIVE MainPredInner(_, _, _)
MainPredInner(st, ss, n) ==
    IF n = 0 \/ st.stop # "run" THEN st
    ELSE MainPredInner(MainPredStep(st, ss), ss, n - 1)

\* for(let i=0;i<steps;i++), steps = 2000
RECURSIVE MainPredBlocks(_, _, _)
MainPredBlocks(st, ss, b) ==
    IF b = 0 \/ st.i >= steps \/ st.stop # "run" THEN st
    ELSE LET n == IF steps - st.i < LoopBlock THEN steps - st.i ELSE LoopBlock
         IN  MainPredBlocks(MainPredInner(st, ss, n), ss, b - 1)

RECURSIVE MainPredLoop(_, _)
MainPredLoop(st, ss) ==
    IF st.i >= steps \/ st.stop # "run" THEN st
    ELSE MainPredLoop(MainPredBlocks(st, ss, LoopBlock), ss)

MainPredictRun(origin, cursorPos, spd, ss) ==
    LET dir == Sign(cursorPos - origin)
        fin == MainPredLoop([pos |-> origin, v |-> dir * spd, i |-> 0,
                             stop |-> "run"], ss)
    IN  [hit    |-> fin.stop = "hit",
         hitPos |-> IF fin.stop = "hit" THEN fin.pos ELSE 0,
         endPos |-> fin.pos,
         nsteps |-> fin.i,
         stop   |-> IF fin.stop = "run" THEN "exhausted" ELSE fin.stop]

MainPredTable == [i \in PredInputs |-> MainPredictRun(i[1], i[2], i[3], i[4])]

InitMain ==
    /\ InitScene
    /\ InitAux
    /\ predRuns = MainPredTable
    /\ firstExits = <<>>

\* shootMeteor() of main.js: size 0.5 m, aimed at the cursor, velocity =
\* dir * speed, no ttl and no fading field (main.js:242-274)
MainShotMeteor(id) ==
    LET dir == Sign(cursor - camera)
    IN  [id |-> id, pos |-> camera,
         velocity |-> dir * speed,
         physVelocity |-> dir * speed * VelToSI,
         active |-> TRUE, mass |-> Mass(5), size |-> 5,
         ttlSet |-> FALSE, ttl |-> 0, fading |-> FALSE,
         opacity |-> OpacityOne]

\* catalog entries as main.js reads them: diameter, approach velocity in
\* km/s and miss distance in km
MainCatalogSet == {[size |-> 20, velocity |-> 20, approach |-> 6900]}

\* spawnSelectedAsteroid() of main.js: on the z axis at the miss distance,
\* heading for the centre with velocity/50 (main.js:588-632)
MainCatalogMeteor(id, c) ==
    [id |-> id, pos |-> c.approach * 100,
     velocity |-> -(c.velocity * 20000),
     physVelocity |-> -(c.velocity * 1000 * VelToSI),
     active |-> TRUE, mass |-> Mass(c.size), size |-> c.size,
     ttlSet |-> FALSE, ttl |-> 0, fading |-> FALSE,
     opacity |-> OpacityOne]

\* One pass of the forEach body of main.js animate over one projectile
\* (main.js:311-408), Arcade branch: integrate, then the impact test on the
\* length read before the integration.  There is no ttl and no fade.
MainUpdateMeteor(m, ss) ==
    IF ~m.active THEN [m |-> m, impact |-> FALSE, faded |-> FALSE, ev |-> <<>>]
    ELSE
    LET r   == Abs(m.pos)
        m1  == ArcadeStep(m, ss)
        hit == Penetrates(r)
        spd == SpeedAtImpact(m1, FALSE)
        ke  == KineticEnergy(m1.mass, spd)
    IN  [m      |-> IF hit THEN MarkImpacted(m1) ELSE m1,
         impact |-> hit,
         faded  |-> FALSE,
         ev     |-> IF hit
                    THEN <<[id |-> m.id, position |-> m1.pos, size |-> m.size,
                            mass |-> m1.mass, speed |-> spd, ke |-> ke,
                            keTons |-> TntEquivalent(ke), realistic |-> FALSE,
                            velocity |-> m1.velocity,
                            physVelocity |-> m1.physVelocity]>>
                    ELSE <<>>]

\* opacity of a new ring, 0.8 (main.js:540)
MainRingOpacity == 1600

\* createImpact(position) of main.js
MainNewEffect(ev) ==
    [id |-> ev.id, center |-> ev.position, opacity |-> MainRingOpacity]

\* createImpact of main.js attaches the ring only
MainEffectObjects(e) == {<<"ring", e.id>>}

\* effect.mesh.material.opacity -= 0.02*simSpeed
MainEffectStep(e, ss) == [e EXCEPT !.opacity = e.opacity - 40 * ss]

\* impactEffects.filter(e=>e.mesh.material.opacity>0)
MainEffectAlive(e) == e.opacity > 0

\* animate() of main.js (main.js:277-423).  The function has no frame time
\* and does not read the global paused.
MainFrame ==
    /\ LET app1 == updatePredictedImpact(This)
           run  == PredOutcome(This)
           ms   == app1.meteors
           res  == [i \in 1..Len(ms) |-> MainUpdateMeteor(ms[i], app1.simSpeed)]
           evs  == Flatten([i \in 1..Len(ms) |-> res[i].ev])
           effs == app1.impactEffects
                     \o [j \in 1..Len(evs) |-> MainNewEffect(evs[j])]
           effs2 == [j \in 1..Len(effs) |-> MainEffectStep(effs[j], app1.simSpeed)]
       IN  /\ marker' = app1.marker
           /\ predFrameOk' = /\ app1.meteors = meteors
                             /\ app1.impactEffects = impactEffects
                             /\ app1.impactCount = impactCount
                             /\ app1.camera = camera
                             /\ app1.cursor = cursor
                             /\ app1.simSpeed = simSpeed
                             /\ app1.realistic = realistic
                             /\ app1.paused = paused
                             /\ app1.speed = speed
           /\ pred' = [in |-> <<camera, cursor, speed, simSpeed, realistic>>,
                       called |-> TRUE,
                       hit |-> app1.marker.visible,
                       hitPos |-> IF app1.marker.visible
                                  THEN app1.marker.position ELSE 0,
                       nsteps |-> run.nsteps, stop |-> run.stop,
                       nMeteors |-> Len(meteors)]
           /\ predLog' = predLog \cup {pred'}
           /\ lastFrame' = [ran |-> TRUE, n |-> Len(ms), reads |-> NoReads]
           /\ meteors' = FilterActive([i \in 1..Len(ms) |-> res[i].m])
           /\ impactEffects' = SelectSeq(effs2, MainEffectAlive)
           /\ scene' =
                ((scene \ UNION {MeteorObjects(ms[i]) :
                             i \in {k \in 1..Len(ms) : res[k].impact}})
                   \cup UNION {MainEffectObjects(MainNewEffect(evs[j])) :
                                 j \in 1..Len(evs)})
                  \ UNION {MainEffectObjects(effs2[j]) :
                             j \in {k \in 1..Len(effs2) :
                                      ~MainEffectAlive(effs2[k])}}
           /\ labels' = labels \ {MeteorLabel(ms[i]) :
                                   i \in {k \in 1..Len(ms) : res[k].impact}}
           /\ impactCount' = app1.impactCount + Len(evs)
           /\ lastImpacts' = evs
           /\ lastFaded' = {}
           /\ resolved' = resolved \o [j \in 1..Len(evs) |-> evs[j].id]
           /\ impactedSinceReset' = impactedSinceReset
                \cup {evs[j].id : j \in 1..Len(evs)}
           /\ removed' = removed
                \cup {<<res[i].m.id, "impact">> :
                        i \in {k \in 1..Len(ms) : res[k].impact}}
    /\ UNCHANGED <<simSpeed, realistic, paused, camera, cursor, speed,
                   seenFading, nextId, events, predRuns, firstExits, spawns, aux>>

MainAnimate ==
    /\ ticks < MaxTicks
    /\ ticks' = ticks + 1
    /\ MainFrame

\* Fire button / Space of main.js
MainFire ==
    /\ UiEvent
    /\ nextId <= MaxMeteors
    /\ meteors' = Append(meteors, MainShotMeteor(nextId))
    /\ scene' = scene \cup MeteorObjects(MainShotMeteor(nextId))
    /\ labels' = labels \cup {MeteorLabel(MainShotMeteor(nextId))}
    /\ nextId' = nextId + 1
    /\ UNCHANGED <<impactEffects, impactCount, simSpeed, realistic, paused,
                   camera, cursor, speed, marker, ticks, lastImpacts,
                   resolved, removed, impactedSinceReset, seenFading,
                   lastFaded, lastFrame, pred, predLog, predFrameOk,
                   predRuns, firstExits, spawns, aux>>

\* Spawn button of main.js, from the arrival of the asteroid details on
MainSpawnSelectedAsteroid ==
    /\ UiEvent
    /\ nextId <= MaxMeteors
    /\ \E c \in MainCatalogSet :
          /\ meteors' = Append(meteors, MainCatalogMeteor(nextId, c))
          /\ scene' = scene \cup {<<"mesh", nextId>>}
    /\ nextId' = nextId + 1
    /\ UNCHANGED <<impactEffects, impactCount, simSpeed, realistic, paused,
                   camera, cursor, speed, marker, ticks, lastImpacts,
                   resolved, removed, impactedSinceReset, seenFading,
                   lastFaded, lastFrame, pred, predLog, predFrameOk,
                   predRuns, firstExits, labels, spawns, aux>>

\* The reset, pause, simSpeed and speed handlers of main.js (main.js:172-189)
\* and its mouse and camera moves assign what the handlers of app.js assign.
NextMain ==
    \/ MainAnimate
    \/ MainFire
    \/ MainSpawnSelectedAsteroid
    \/ ResetScene
    \/ TogglePause
    \/ \E v \in SimSpeedSet : SetSimSpeed(v)
    \/ \E v \in SpeedSet : SetSpeed(v)
    \/ \E c \in CursorSet : MoveCursor(c)
    \/ \E c \in CameraSet : MoveCamera(c)

SpecMain == InitMain /\ [][NextMain]_vars


\* ------------------------------------------------------------ properties
\* C1: every run of the predictor ends after at most 2000 iterations of its
\* loop; a run that ends before the 2000th iteration ended on a hit or on
\* the escape distance; and the number of iterations depends on the inputs
\* of the run only, not on how many projectiles were live when it ran.
PredictorTerminates ==
    \A a \in predLog :
        /\ a.nsteps <= steps
        /\ a.nsteps < steps => a.stop \in {"hit", "escape"}
        /\ \A b \in predLog : a.in = b.in => a.nsteps = b.nsteps

\* C1 witness: the same inputs predicted with different numbers of live
\* projectiles, the loop stopping early.
PredictorTerminatesWitness ==
    \E a, b \in predLog :
        /\ a.in = b.in
        /\ a.nMeteors # b.nMeteors
        /\ a.nsteps < steps
        /\ a.nsteps > 0

\* C2: a run of the predictor changes nothing of the App but the marker:
\* not the live projectiles, the effects, the impact counter, the camera,
\* the cursor or the controls.
PredictorOnlyWritesMarker == pred.called => predFrameOk

\* C2 witness: a run that wrote the marker while projectiles were live.
PredictorOnlyWritesMarkerWitness ==
    /\ pred.called
    /\ pred.nMeteors > 0
    /\ pred.hit
    /\ marker.visible
    /\ predFrameOk

\* the ids of the live set
LiveIds == {meteors[i].id : i \in 1..Len(meteors)}

\* C3: a projectile found inside the impact radius is resolved exactly once:
\* no projectile is handed to the impact resolver twice, a projectile resolved
\* by a frame is out of the live set when the frame ends, and impactCount is
\* the number of projectiles removed by impact since the last Reset.
ImpactResolvedOnce ==
    /\ \A i, j \in 1..Len(resolved) : resolved[i] = resolved[j] => i = j
    /\ \A j \in 1..Len(lastImpacts) : lastImpacts[j].id \notin LiveIds
    /\ impactCount = Cardinality(impactedSinceReset)
    /\ \A id \in impactedSinceReset : <<id, "impact">> \in removed

\* C3 witness: a frame has just resolved an impact and counted it.
ImpactResolvedOnceWitness ==
    /\ Len(lastImpacts) = 1
    /\ impactCount = 1
    /\ <<lastImpacts[1].id, "impact">> \in removed

\* C4: the lifecycle only moves forward: a live projectile that is fading
\* stays fading for as long as it is live, every member of the live set is
\* active, and a projectile once removed is never in the live set again.
LifecycleMonotonic ==
    /\ [][\A i \in 1..Len(meteors) : \A j \in 1..Len(meteors') :
            (meteors'[j].id = meteors[i].id /\ meteors[i].fading)
                => meteors'[j].fading]_vars
    /\ [][removed \subseteq removed']_vars
    /\ [](\A i \in 1..Len(meteors) :
            /\ meteors[i].active
            /\ \A c \in {"impact", "fade", "reset"} :
                  <<meteors[i].id, c>> \notin removed)

\* C4 witness: a projectile that was seen fading has been removed while
\* another projectile is live.
LifecycleMonotonicWitness ==
    /\ \E id \in seenFading : <<id, "fade">> \in removed
    /\ Len(meteors) > 0

\* C5: the fade path of a projectile that stays outside the impact radius.
\* A live projectile is fading exactly when its ttl has reached 0 or less,
\* and is fully opaque before that; while it fades, every frame takes 0.5 of
\* opacity per simulated second (as much, in these units, as the frame takes
\* from the ttl); the frame in which the opacity reaches 0 removes it; a
\* frame resolves an impact only for a projectile that was inside the impact
\* radius when the frame began; and with frames running unpaused at positive
\* simSpeed every projectile, spawned with a ttl or without one, leaves the
\* live set.
FadePath ==
    /\ [](\A i \in 1..Len(meteors) :
            /\ meteors[i].fading <=> (meteors[i].ttlSet /\ meteors[i].ttl <= 0)
            /\ meteors[i].opacity > 0
            /\ ~meteors[i].fading => meteors[i].opacity = OpacityOne)
    /\ [][ticks' # ticks =>
            \A i \in 1..Len(meteors) : \A j \in 1..Len(meteors') :
                (meteors'[j].id = meteors[i].id /\ meteors'[j].fading)
                    => /\ meteors[i].ttlSet
                       /\ OpacityOr1(meteors[i].opacity) - meteors'[j].opacity
                            = meteors[i].ttl - meteors'[j].ttl]_vars
    /\ [](\A f \in lastFaded :
            /\ f.before.ttlSet
            /\ f.after.fading
            /\ f.after.ttl <= 0
            /\ f.after.opacity = 0
            /\ OpacityOr1(f.before.opacity) <= f.before.ttl - f.after.ttl)
    /\ [][ticks' # ticks =>
            \A j \in 1..Len(lastImpacts') : \E i \in 1..Len(meteors) :
                /\ meteors[i].id = lastImpacts'[j].id
                /\ Abs(meteors[i].pos) < earthRadius + ImpactMargin]_vars
    /\ \A id \in 1..MaxMeteors : (id \in LiveIds) ~> (id \notin LiveIds)

\* C5 witness: a projectile went through the opacity ramp and was removed
\* at opacity 0 without ever being resolved as an impact.
FadePathWitness ==
    \E id \in seenFading :
        /\ <<id, "fade">> \in removed
        /\ <<id, "impact">> \notin removed
        /\ \E f \in lastFaded : f.after.id = id /\ f.before.fading

\* C5, the countdown the fade path starts from: in every frame that runs
\* unpaused at positive simSpeed each surviving projectile has a ttl
\* afterwards (a catalog projectile gets one in its first frame), and a ttl
\* that it already had has counted down.  Without it no projectile that
\* stays outside the impact radius ever fades or is removed.
TtlCountsDown ==
    [][(ticks' # ticks /\ ~paused /\ simSpeed > 0) =>
          \A j \in 1..Len(meteors') :
              /\ meteors'[j].ttlSet
              /\ \A i \in 1..Len(meteors) :
                    (meteors[i].id = meteors'[j].id /\ meteors[i].ttlSet)
                        => meteors'[j].ttl < meteors[i].ttl]_vars

\* the first exit of the trajectory of a logged run of the predictor
FirstExitOf(in) == firstExits[<<in[1], in[2], in[3], in[4]>>]

\* C6: the predictor shows the marker exactly when the trajectory from its
\* inputs has, within 2000 steps, a position inside the impact radius before
\* any position beyond the escape distance; the marker is then at the first
\* such position; otherwise the marker is hidden.
PredictorReportsFirstHit ==
    pred.called =>
        /\ marker.visible <=> (FirstExitOf(pred.in).kind = "hit")
        /\ marker.visible => marker.position = FirstExitOf(pred.in).pos
        /\ pred.hit = marker.visible

\* C6 witness: the marker stands at a hit found after more than one step.
PredictorReportsFirstHitWitness ==
    /\ pred.called
    /\ marker.visible
    /\ FirstExitOf(pred.in).kind = "hit"
    /\ FirstExitOf(pred.in).k > 1
    /\ marker.position = FirstExitOf(pred.in).pos

\* C7: the prediction is a function of its inputs (camera position, cursor
\* position, launch speed, simSpeed, model flag): two runs with the same
\* inputs report the same hit / no hit and the same point, whatever else
\* the App holds when they run.
PredictorDeterministic ==
    \A a, b \in predLog :
        a.in = b.in => (a.hit = b.hit /\ a.hitPos = b.hitPos)

\* C7 witness: the same inputs predicted twice, with different live sets,
\* reporting a hit.
PredictorDeterministicWitness ==
    \E a, b \in predLog :
        /\ a.in = b.in
        /\ a.nMeteors # b.nMeteors
        /\ a.hit /\ b.hit
        /\ a.hitPos = b.hitPos

\* C8: a frame that runs while paused changes no projectile, no effect and
\* not the impact counter and resolves no impact; pressing Pause or Resume
\* changes none of them either, so the simulation resumes from the state
\* in which it was paused.
PauseFreezes ==
    /\ [][(paused /\ ticks' # ticks) =>
            /\ UNCHANGED <<meteors, impactEffects, impactCount>>
            /\ lastImpacts' = <<>>]_vars
    /\ [][(paused' # paused) =>
            UNCHANGED <<meteors, impactEffects, impactCount>>]_vars

\* C8 witness: the latest frame ran paused with projectiles in the live set.
PauseFreezesWitness ==
    /\ paused
    /\ pred.called
    /\ ~lastFrame.ran
    /\ lastFrame.n > 0
    /\ Len(meteors) = lastFrame.n

\* C9: every impact reports the kinetic energy 0.5 * mass * speed^2 of the
\* mass and the impact speed it used, never negative, and the TNT figure
\* is that energy divided by 4.184e9 J (4184 MJ).
ImpactEnergy ==
    \A j \in 1..Len(lastImpacts) :
        LET e   == lastImpacts[j]
            kms == e.speed \div 100000
        IN  /\ 2 * e.ke <= e.mass * kms * kms
            /\ e.mass * kms * kms < 2 * e.ke + 2
            /\ e.ke >= 0
            /\ 4184 * e.keTons <= e.ke
            /\ e.ke < 4184 * (e.keTons + 1)

\* C9 witness: an impact with positive energy and TNT figure.
ImpactEnergyWitness ==
    /\ Len(lastImpacts) > 0
    /\ lastImpacts[1].ke > 0
    /\ lastImpacts[1].keTons > 0

\* C10: the speed used for the impact energy is the magnitude of the
\* velocity of the model active in the impact frame: the SI velocity under
\* Realistic, the display velocity times SCENE_SCALE under Arcade.
ImpactSpeedOfActiveModel ==
    \A j \in 1..Len(lastImpacts) :
        LET e == lastImpacts[j]
        IN  e.speed = IF e.realistic THEN Abs(e.physVelocity)
                      ELSE Abs(e.velocity) * VelToSI


\* C11: Reset.  A step outside a frame that drops a projectile or an effect
\* or lowers the impact counter (only the Reset handler does) leaves the
\* live set and the effect set empty and the counter at 0, resolves no
\* impact, and leaves none of the objects of the dropped projectiles and
\* effects (meshes, labels, rings, mushroom groups) attached.
ResetClears ==
    [][(/\ ticks' = ticks
        /\ \/ Len(meteors') < Len(meteors)
           \/ Len(impactEffects') < Len(impactEffects)
           \/ impactCount' < impactCount)
       => /\ meteors' = <<>>
          /\ impactEffects' = <<>>
          /\ impactCount' = 0
          /\ resolved' = resolved
          /\ lastImpacts' = lastImpacts
          /\ scene' \cap (UNION {MeteorObjects(meteors[i]) :
                                  i \in 1..Len(meteors)}
                          \cup UNION {EffectObjects(impactEffects[j]) :
                                       j \in 1..Len(impactEffects)}) = {}]_vars


\* C12: a spawn request with a non-positive diameter is rejected: no
\* projectile with a non-positive diameter is ever in the live set.
SpawnRejectsInvalid ==
    \A i \in 1..Len(meteors) : meteors[i].size > 0


\* ---------------------------------------------------------------------
\* The impact energy computation on IEEE values (app.js:1014-1019).
\* A number is [k, v]: k = "fin" with the value v, k = "inf" with the
\* sign v, or k = "nan" with v = 0.

Fin(n) == [k |-> "fin", v |-> n]

NaN == [k |-> "nan", v |-> 0]

Infinity == [k |-> "inf", v |-> 1]

IsFinite(x) == x.k = "fin"

\* x * y of two numbers
FMul(x, y) ==
    IF x.k = "nan" \/ y.k = "nan" THEN NaN
    ELSE IF x.k = "inf" \/ y.k = "inf"
         THEN IF x.v = 0 \/ y.v = 0 THEN NaN
              ELSE [k |-> "inf", v |-> Sign(x.v) * Sign(y.v)]
         ELSE Fin(x.v * y.v)

\* Vector3.length() of a vector along the axis
FLength(x) ==
    IF x.k = "nan" THEN NaN
    ELSE IF x.k = "inf" THEN Infinity
    ELSE Fin(Abs(x.v))

\* (meteor.mass || 1): 0 and NaN are falsy
FMassOr1(x) ==
    IF x.k = "nan" \/ (x.k = "fin" /\ x.v = 0) THEN Fin(1) ELSE x

\* a finite number reduced to its sign: enough to tell whether a product
\* with an infinite factor is infinite or NaN
FSign(x) == IF x.k = "fin" THEN Fin(Sign(x.v)) ELSE x

\* 0.5 * (mass || 1) * speed * speed, speed in cm/s, a finite result in MJ
FKineticEnergy(mass, spd) ==
    LET m == FMassOr1(mass)
    IN  IF IsFinite(m) /\ IsFinite(spd)
        THEN Fin(KineticEnergy(m.v, spd.v))
        ELSE FMul(FMul(FSign(m), FSign(spd)), FSign(spd))

\* ke / 4.184e9
FTntEquivalent(ke) ==
    IF ke.k = "fin" THEN Fin(TntEquivalent(ke.v)) ELSE ke

\* the try block of the impact branch for one projectile: the text put in
\* #impactEnergy; toExponential and toFixed format NaN and Infinity without
\* throwing, so the catch branch that shows '-' is not entered
ImpactEnergyShown(m) ==
    LET speedAtImpact == FLength(m.physVelocity)
        ke            == FKineticEnergy(m.mass, speedAtImpact)
    IN  [ke |-> ke, keTons |-> FTntEquivalent(ke), dash |-> FALSE]

MassValues == {Fin(0), Fin(196), NaN, Infinity}

VelocityValues == {Fin(0), Fin(-2000000), NaN, Infinity}

ImpactingMeteors ==
    {[mass |-> ma, physVelocity |-> v] : ma \in MassValues, v \in VelocityValues}

\* two projectiles inside the impact radius at the start of a tick
InitEnergy ==
    /\ InitScene
    /\ predRuns = <<>>
    /\ firstExits = <<>>
    /\ \E a \in ImpactingMeteors, b \in ImpactingMeteors :
          resolver = [queue |-> <<a, b>>, i |-> 1, impactCount |-> 0,
                      shown |-> <<>>]
    /\ loader = NoLoad
    /\ catalog = NoCatalog
    /\ launcher = NoLaunch
    /\ conv = NoConv

\* the impact branch of the forEach body for the next projectile
ResolveImpact ==
    /\ resolver.i <= Len(resolver.queue)
    /\ resolver' = [resolver EXCEPT
                       !.i = @ + 1,
                       !.impactCount = @ + 1,
                       !.shown = Append(@, ImpactEnergyShown(resolver.queue[resolver.i]))]
    /\ UNCHANGED <<appVars, catalog, loader, launcher, conv>>

NextEnergy == ResolveImpact

SpecEnergy == InitEnergy /\ [][NextEnergy]_vars

\* C13: an impact whose mass or impact speed is not finite shows the energy
\* 0 flagged invalid, never NaN or Infinity, and the projectiles after it in
\* the same tick are still handled.
NonFiniteEnergyIsZero ==
    /\ Len(resolver.shown) = resolver.i - 1
    /\ \A j \in 1..Len(resolver.shown) :
          LET m == resolver.queue[j]
              o == resolver.shown[j]
          IN  (~IsFinite(m.mass) \/ ~IsFinite(m.physVelocity))
                  => /\ o.ke = Fin(0)
                     /\ o.keTons = Fin(0)
                     /\ o.dash


\* ---------------------------------------------------------------------
\* One shot from (0, 0, 15) at the origin: Arcade, simSpeed 1, #speed 0.05,
\* the simulation left running.  Frames are 16 ms apart or follow a long
\* gap (a tab left in the background).
ShotOrigin == 1500000

ShotPredTable ==
    [i \in {<<ShotOrigin, 0, 50000, 1>>} |-> PredictRun(i[1], i[2], i[3], i[4])]

InitShot ==
    /\ InitSceneAt(ShotOrigin)
    /\ InitAux
    /\ predRuns = ShotPredTable
    /\ firstExits = <<>>

ShotFrameMsSet == {16, 400000}

NextShot ==
    \/ \E dtMs \in ShotFrameMsSet : AnimateLive(dtMs)
    \/ nextId = 1 /\ Fire

SpecShot ==
    /\ InitShot
    /\ [][NextShot]_vars
    /\ WF_ticks(FrameRuns)


\* C14: the shot is resolved as an impact before its TTL runs out, at a
\* position inside the detection shell.
ShotImpactsInShell ==
    /\ [](\A j \in 1..Len(lastImpacts) :
            /\ earthRadius <= Abs(lastImpacts[j].position)
            /\ Abs(lastImpacts[j].position) < earthRadius + ImpactMargin)
    /\ [](seenFading = {} /\ lastFaded = {})
    /\ (Len(meteors) = 1) ~> (resolved = <<1>>)

\* C14 as the code has it: the shot is resolved as an impact at a position
\* inside the detection shell unless the time between frames has used up
\* its TTL first, and it fades only with its TTL used up.
ShotImpactsUnlessTtl ==
    /\ [](\A j \in 1..Len(lastImpacts) :
            /\ earthRadius <= Abs(lastImpacts[j].position)
            /\ Abs(lastImpacts[j].position) < earthRadius + ImpactMargin)
    /\ [](\A i \in 1..Len(meteors) : meteors[i].fading => meteors[i].ttl <= 0)
    /\ (Len(meteors) = 1) ~> (resolved = <<1>> \/ lastFaded # {} \/ seenFading # {})

\* C14 witness: the shot from (0, 0, 15) has been resolved as an impact
\* without fading.
ShotImpactsWitness ==
    /\ camera = ShotOrigin
    /\ resolved = <<1>>
    /\ Len(lastImpacts) = 1
    /\ seenFading = {}
    /\ lastFaded = {}


\* ---------------------------------------------------------------------
\* Infall from rest: Arcade, the #speed slider at 0, so that shootMeteor
\* launches with zero velocity; simSpeed is 1 or 100.
InfallOrigins == CameraSet \cup {ShotOrigin}

InfallSimSpeeds == SimSpeedSet \ {0}

InfallPredTable ==
    [i \in InfallOrigins \X {0} \X {0, 50000} \X InfallSimSpeeds |->
        PredictRun(i[1], i[2], i[3], i[4])]

InitInfall ==
    /\ \E cam \in InfallOrigins : InitSceneAt(cam)
    /\ InitAux
    /\ predRuns = InfallPredTable
    /\ firstExits = <<>>

InfallFrameMsSet == {16}

NextInfall ==
    \/ speed # 0 /\ SetSpeed(0)
    \/ speed = 0 /\ nextId = 1 /\ Fire
    \/ \E v \in InfallSimSpeeds : SetSimSpeed(v)
    \/ \E dtMs \in InfallFrameMsSet : AnimateLive(dtMs)

SpecInfall == InitInfall /\ [][NextInfall]_vars

FireAimsAtCursor ==
    [][(/\ nextId' = nextId + 1
        /\ Len(meteors') > 0
        /\ meteors'[Len(meteors')].id = nextId
        /\ meteors'[Len(meteors')].ttlSet)
        => LET m == meteors'[Len(meteors')]
           IN  /\ meteors' = Append(meteors, m)
               /\ m.pos = camera
               /\ m.velocity = SceneSpeed(Sign(cursor - camera) * speed)]_vars


\* ---------------------------------------------------------------------
\* loadHighResEarthTexture (app.js:1439-1468).  A URL is a sequence of
\* characters; the answer to window.prompt is a text or a cancel (null).
MaxCalls == 2

NasaUrl == <<"n">>

WikiUrl == <<"w">>

DefaultUrls == <<NasaUrl, WikiUrl>>

PromptAnswers ==
    {[cancelled |-> TRUE, text |-> <<>>]}
        \cup {[cancelled |-> FALSE, text |-> t] :
                t \in {<<>>, <<" ">>, <<"u">>, <<" ", "u", " ">>, <<" ", "n">>,
                       <<"w">>}}

\* String.prototype.trim on spaces
RECURSIVE TrimLeft(_)
TrimLeft(t) == IF t # <<>> /\ Head(t) = " " THEN TrimLeft(Tail(t)) ELSE t

RECURSIVE TrimRight(_)
TrimRight(t) ==
    IF t # <<>> /\ t[Len(t)] = " " THEN TrimRight(SubSeq(t, 1, Len(t) - 1)) ELSE t

Trim(t) == TrimRight(TrimLeft(t))

\* if(userUrl && userUrl.trim()) urls.push(userUrl.trim()); then the defaults
TextureUrls(answer) ==
    (IF ~answer.cancelled /\ answer.text # <<>> /\ Trim(answer.text) # <<>>
     THEN <<Trim(answer.text)>> ELSE <<>>) \o DefaultUrls

\* variant of tryLoad: tried is advanced twice
tryLoadSkipsOne(l) ==
    IF l.tried >= Len(l.urls)
    THEN [l EXCEPT !.alerts = @ + 1, !.pending = FALSE]
    ELSE [l EXCEPT !.tried = IF @ + 2 <= Len(l.urls) THEN @ + 2 ELSE @ + 1,
                   !.attempts = Append(@, l.urls[IF l.tried + 2 <= Len(l.urls)
                                                 THEN l.tried + 2 ELSE l.tried + 1]),
                   !.pending = TRUE]

\* tryLoad(): alert when no URL is left, else loader.load(urls[tried++], ...)
tryLoad(l) ==
    IF l.tried >= Len(l.urls)
    THEN [l EXCEPT !.alerts = @ + 1, !.pending = FALSE]
    ELSE [l EXCEPT !.tried = @ + 1,
                   !.attempts = Append(@, l.urls[l.tried + 1]),
                   !.pending = TRUE]

\* a click on the button, answered by answer, up to the first loader.load
LoadHighResEarthTexture(answer) ==
    /\ ~loader.pending
    /\ loader.calls < MaxCalls
    /\ loader' = tryLoad([calls |-> loader.calls + 1, prompt |-> answer,
                          urls |-> TextureUrls(answer), tried |-> 0,
                          pending |-> FALSE, attempts |-> <<>>,
                          failed |-> <<>>, applied |-> <<>>, alerts |-> 0,
                          map |-> loader.map])
    /\ UNCHANGED <<appVars, catalog, resolver, launcher, conv>>

\* onLoad of the load in flight: the texture becomes the Earth's map
TextureLoaded ==
    /\ loader.pending
    /\ loader' = [loader EXCEPT !.pending = FALSE,
                                !.applied = Append(@, loader.urls[loader.tried]),
                                !.map = loader.urls[loader.tried]]
    /\ UNCHANGED <<appVars, catalog, resolver, launcher, conv>>

\* onError of the load in flight: tryLoad() again
TextureFailed ==
    /\ loader.pending
    /\ loader' = tryLoad([loader EXCEPT
                             !.failed = Append(@, loader.urls[loader.tried])])
    /\ UNCHANGED <<appVars, catalog, resolver, launcher, conv>>

InitTexture ==
    /\ InitScene
    /\ InitAux
    /\ predRuns = <<>>
    /\ firstExits = <<>>

NextTexture ==
    \/ \E answer \in PromptAnswers : LoadHighResEarthTexture(answer)
    \/ TextureLoaded
    \/ TextureFailed

SpecTexture == InitTexture /\ [][NextTexture]_vars


\* the list the texture loader is to go through: the user's URL when the
\* answer has a character other than a space, then the built-in defaults
ExpectedUrls ==
    LET a == loader.prompt
    IN  (IF ~a.cancelled /\ \E k \in 1..Len(a.text) : a.text[k] # " "
         THEN <<Trim(a.text)>> ELSE <<>>) \o <<NasaUrl, WikiUrl>>

\* the loads started so far follow the list entry by entry, each started
\* only after the one before it failed; the first texture that loads is
\* applied and nothing is tried after it; the failure is reported once,
\* exactly when every entry has failed
FallbackByEntry ==
    /\ Len(loader.attempts) <= Len(ExpectedUrls)
    /\ loader.attempts = SubSeq(ExpectedUrls, 1, Len(loader.attempts))
    /\ Len(loader.failed) <= Len(loader.attempts)
    /\ loader.failed = SubSeq(loader.attempts, 1, Len(loader.failed))
    /\ Len(loader.attempts)
         = Len(loader.failed) + Len(loader.applied) + (IF loader.pending THEN 1 ELSE 0)
    /\ Len(loader.applied) <= 1
    /\ loader.applied # <<>>
         => /\ ~loader.pending
            /\ loader.applied[1] = loader.attempts[Len(loader.attempts)]
            /\ loader.map = loader.applied[1]
    /\ loader.alerts <= 1
    /\ loader.alerts = 1 <=> loader.failed = ExpectedUrls

\* C17: the texture loader tries the user's URL first when it is not blank,
\* then the defaults in order, the next only after the previous failed and
\* each URL at most once; it applies the first texture that loads and
\* tries nothing after it; it reports failure once, after every URL failed.
TextureFallbackOrder ==
    loader.calls > 0
        => /\ FallbackByEntry
           /\ \A i, j \in 1..Len(loader.attempts) :
                 i # j => loader.attempts[i] # loader.attempts[j]

\* C17 as the code has it: each entry of the list is tried at most once;
\* a user URL that is one of the defaults is in the list twice.
TextureFallbackEntries ==
    loader.calls > 0 => FallbackByEntry /\ Len(loader.attempts) = loader.tried

\* C17 witness: the user's URL and both defaults failed and the failure was
\* reported.
TextureFallbackWitness ==
    /\ loader.alerts = 1
    /\ Len(loader.failed) = 3
    /\ loader.failed[1] = <<"u">>
    /\ loader.applied = <<>>


\* ---------------------------------------------------------------------
\* The start scripts: start.bat (lines 16-40) and run.sh
\* (src/unnamed/part_001, lines 13-47).  out is what the script has done
\* after the polling: printed the log, opened the browser, printed the
\* notice that no opener was found.
MAX == 60

\* start.bat opens with the start command of cmd; run.sh looks for xdg-open,
\* then open, and may find neither
LaunchSetups ==
    {[script |-> "bat", opener |-> "start", logExists |-> l] : l \in BOOLEAN}
        \cup {[script |-> "sh", opener |-> o, logExists |-> l] :
                o \in {"xdg-open", "open", "none"}, l \in BOOLEAN}

\* run.sh 20-26 and 39-45: open the browser with the opener found, else
\* print the notice
ShOpen(opener) == IF opener = "none" THEN <<"notice">> ELSE <<"open">>

\* run.sh 33-45: print the tail of the log if the file exists, then open
ShTimedOut(l) ==
    (IF l.logExists THEN <<"log">> ELSE <<>>) \o ShOpen(l.opener)

\* start.bat 33-37: type vite.log, then start the URL
BatTimedOut(l) ==
    <<IF l.logExists THEN "log" ELSE "nolog", "open">>

\* the poll answers: start.bat 22 goto launched, run.sh 17-27
PollSucceeds ==
    /\ launcher.pc = "poll"
    /\ launcher' = [launcher EXCEPT
                       !.polls = @ + 1, !.up = TRUE, !.pc = "done",
                       !.out = IF launcher.script = "bat" THEN <<"open">>
                               ELSE ShOpen(launcher.opener)]
    /\ UNCHANGED <<appVars, catalog, resolver, loader, conv>>

\* variant of PollFails: the count is not advanced
PollFailsNoCount ==
    /\ launcher.pc = "poll"
    /\ launcher.polls <= MAX
    /\ launcher' = [launcher EXCEPT !.polls = @ + 1]
    /\ UNCHANGED <<appVars, catalog, resolver, loader, conv>>

\* the poll fails: wait a second, count, and give up at MAX
\* (start.bat 23-26, run.sh 29-31 and the loop test at 16)
PollFails ==
    /\ launcher.pc = "poll"
    /\ LET c == launcher.COUNT + 1
       IN  launcher' =
             IF c >= MAX
             THEN [launcher EXCEPT
                      !.polls = @ + 1, !.COUNT = c, !.pc = "done",
                      !.out = IF launcher.script = "bat" THEN BatTimedOut(launcher)
                              ELSE ShTimedOut(launcher)]
             ELSE [launcher EXCEPT !.polls = @ + 1, !.COUNT = c]
    /\ UNCHANGED <<appVars, catalog, resolver, loader, conv>>

InitStart ==
    /\ InitScene
    /\ predRuns = <<>>
    /\ firstExits = <<>>
    /\ resolver = [queue |-> <<>>, i |-> 1, impactCount |-> 0, shown |-> <<>>]
    /\ loader = NoLoad
    /\ catalog = NoCatalog
    /\ conv = NoConv
    /\ \E su \in LaunchSetups :
          launcher = [script |-> su.script, opener |-> su.opener,
                      logExists |-> su.logExists, pc |-> "poll", COUNT |-> 0,
                      polls |-> 0, up |-> FALSE, out |-> <<>>]

NextStart == PollSucceeds \/ PollFails

\* a script that has been started keeps running
SpecStart == InitStart /\ [][NextStart]_vars /\ WF_vars(NextStart)

Count(seq, x) == Cardinality({k \in 1..Len(seq) : seq[k] = x})

\* C18: a start script polls at most 60 times, stops at the first success,
\* always terminates, and opens the browser exactly once on both paths,
\* after the timeout with the log printed first.
StartOpensOnce ==
    /\ [](launcher.polls <= 60)
    /\ [](launcher.up => launcher.pc = "done")
    /\ [](launcher.pc = "done"
            => /\ Count(launcher.out, "open") = 1
               /\ ~launcher.up => launcher.out = <<"log", "open">>)
    /\ <>(launcher.pc = "done")

\* C18 as the scripts have it: the browser is opened once when an opener
\* exists; run.sh without xdg-open and open prints a notice instead, and
\* the log is printed only if the file exists.
StartOpensIfOpener ==
    /\ [](launcher.polls <= 60)
    /\ [](launcher.up => launcher.pc = "done")
    /\ [](launcher.pc = "done"
            => /\ Count(launcher.out, "open")
                    = (IF launcher.opener = "none" THEN 0 ELSE 1)
               /\ Count(launcher.out, "notice")
                    = (IF launcher.opener = "none" THEN 1 ELSE 0)
               /\ (launcher.up => Len(launcher.out) = 1)
               /\ (~launcher.up =>
                      /\ launcher.polls = 60
                      /\ Len(launcher.out) = (IF launcher.script = "sh" /\ ~launcher.logExists
                                              THEN 1 ELSE 2)
                      /\ launcher.logExists => launcher.out[1] = "log"))
    /\ <>(launcher.pc = "done")

\* C18 witness: run.sh gave up after 60 failed polls, printed the log and
\* opened the browser.
StartTimedOutWitness ==
    /\ launcher.script = "sh"
    /\ launcher.pc = "done"
    /\ ~launcher.up
    /\ launcher.polls = 60
    /\ launcher.out = <<"log", "open">>


\* ---------------------------------------------------------------------
\* The scene <-> metres conversion of the realistic branch on IEEE doubles
\* (app.js:980-988): pos * SCENE_SCALE, then * (1 / SCENE_SCALE).
\* A positive double is [m, e], its value m * 2^e; m is a natural number of
\* at most 53 bits written in limbs of 14 bits, least significant first.
Limb == 2^14

Dig(a, i) == IF i >= 1 /\ i <= Len(a) THEN a[i] ELSE 0

\* drop the zero limbs at the most significant end
RECURSIVE Strip(_)
Strip(a) == IF a # <<>> /\ a[Len(a)] = 0 THEN Strip(SubSeq(a, 1, Len(a) - 1)) ELSE a

\* bring every limb below 2^14, carrying upward
RECURSIVE Carry(_, _)
Carry(raw, c) ==
    IF raw = <<>> THEN (IF c = 0 THEN <<>> ELSE <<c % Limb>> \o Carry(<<>>, c \div Limb))
    ELSE <<(Head(raw) + c) % Limb>> \o Carry(Tail(raw), (Head(raw) + c) \div Limb)

RECURSIVE SumProd(_, _, _, _)
SumProd(a, b, k, i) ==
    IF i > Len(a) THEN 0 ELSE a[i] * Dig(b, k + 1 - i) + SumProd(a, b, k, i + 1)

\* the exact product of two naturals
BigMul(a, b) ==
    Strip(Carry([k \in 1..(Len(a) + Len(b) - 1) |-> SumProd(a, b, k, 1)], 0))

RECURSIVE BitsOf(_)
BitsOf(n) == IF n = 0 THEN 0 ELSE 1 + BitsOf(n \div 2)

BitLen(a) == IF a = <<>> THEN 0 ELSE (Len(a) - 1) * 14 + BitsOf(a[Len(a)])

\* bit n of a, bit 0 the least significant
Bit(a, n) == (Dig(a, n \div 14 + 1) \div 2^(n % 14)) % 2

\* no bit below bit n is set
LowZero(a, n) ==
    /\ \A i \in 1..(n \div 14) : Dig(a, i) = 0
    /\ Dig(a, n \div 14 + 1) % 2^(n % 14) = 0

\* a div 2^k
ShiftRight(a, k) ==
    LET w == k \div 14
        b == k % 14
    IN  Strip([i \in 1..(Len(a) - w) |->
                 (Dig(a, i + w) \div 2^b) + (Dig(a, i + w + 1) % 2^b) * 2^(14 - b)])

BigInc(a) == IF a = <<>> THEN <<1>> ELSE Carry(<<a[1] + 1>> \o Tail(a), 0)

\* variant of RoundShift: the dropped bits are cut off
RoundShiftTruncates(a, k) == ShiftRight(a, k)

\* a / 2^k rounded to the nearest natural, ties to even
RoundShift(a, k) ==
    IF Bit(a, k - 1) = 1 /\ (~LowZero(a, k - 1) \/ Bit(a, k) = 1)
    THEN BigInc(ShiftRight(a, k))
    ELSE ShiftRight(a, k)

\* m * 2^e rounded to a double
RoundTo53(m, e) ==
    LET k == BitLen(m) - 53
    IN  IF k <= 0 THEN [m |-> m, e |-> e]
        ELSE LET q == RoundShift(m, k)
             IN  IF BitLen(q) > 53 THEN [m |-> ShiftRight(q, 1), e |-> e + k + 1]
                 ELSE [m |-> q, e |-> e + k]

\* x * y of two doubles
DoubleMul(x, y) == RoundTo53(BigMul(x.m, y.m), x.e + y.e)

\* long division of a by d < 2^14, from the most significant limb:
\* [q, r] with a = q * d + r
RECURSIVE DivSmall(_, _)
DivSmall(a, d) ==
    IF a = <<>> THEN [q |-> <<>>, r |-> 0]
    ELSE LET hi  == DivSmall(Tail(a), d)
             cur == hi.r * Limb + Head(a)
         IN  [q |-> <<cur \div d>> \o hi.q, r |-> cur % d]

\* n * 2^e / d as a double, n and d below 2^14: the quotient of n * 2^84 by
\* d, with one more bit that is set when the division left a remainder
DoubleDiv(n, e, d) ==
    LET dv == DivSmall(<<0, 0, 0, 0, 0, 0, n>>, d)
        q2 == Carry([i \in 1..Len(dv.q) |->
                        2 * dv.q[i] + (IF i = 1 /\ dv.r # 0 THEN 1 ELSE 0)], 0)
    IN  RoundTo53(Strip(q2), e - 85)

\* SCENE_SCALE = 1e6 = 15625 * 2^6
SceneScaleOdd == 15625

SceneScaleDouble == [m |-> <<SceneScaleOdd>>, e |-> 6]

\* 1 / this.SCENE_SCALE
InvSceneScale == DoubleDiv(1, -6, SceneScaleOdd)

\* the positions n / 1000: the detection shell 6.371 .. 6.571, and 6.8, 15
\* and 15.297 scene units
PositionMillis == (6371..6571) \cup {6800, 15000, 15297}

PositionDouble(n) == DoubleDiv(n, 0, 1000)

\* the realistic branch with dtInt = 0 (simSpeed 0): physVelocity and
\* posMeters get a zero added and the position is converted back
RealisticIdleTick ==
    /\ ~conv.ticked
    /\ conv.n # 0
    /\ conv' = [conv EXCEPT
                   !.q = DoubleMul(DoubleMul(conv.p, SceneScaleDouble), InvSceneScale),
                   !.ticked = TRUE]
    /\ UNCHANGED <<appVars, catalog, resolver, loader, launcher>>

InitConvert ==
    /\ InitScene
    /\ predRuns = <<>>
    /\ firstExits = <<>>
    /\ resolver = [queue |-> <<>>, i |-> 1, impactCount |-> 0, shown |-> <<>>]
    /\ loader = NoLoad
    /\ catalog = NoCatalog
    /\ launcher = NoLaunch
    /\ \E n \in PositionMillis :
          conv = [n |-> n, p |-> PositionDouble(n), q |-> PositionDouble(n),
                  ticked |-> FALSE]

NextConvert == RealisticIdleTick

SpecConvert == InitConvert /\ [][NextConvert]_vars

\* C19: display -> SI -> display returns the original position, for every
\* position: a Realistic tick with zero displacement leaves the display
\* position unchanged.
RoundTripExact ==
    conv.ticked => conv.q = conv.p

\* C19 as the code has it: the round trip returns the position to within
\* one unit in the last place of the double.
RoundTripWithinUlp ==
    conv.ticked
        => /\ conv.q.e = conv.p.e
           /\ \/ conv.q.m = conv.p.m
              \/ BigInc(conv.q.m) = conv.p.m
              \/ BigInc(conv.p.m) = conv.q.m

\* C19 witness: the tick moved 6.371 down by one unit in the last place.
RoundTripWitness ==
    /\ conv.ticked
    /\ conv.n = 6371
    /\ BigInc(conv.q.m) = conv.p.m


\* C20: penetration is tested on the position this tick's integration
\* produced: after every unpaused tick no projectile left in the live set
\* is inside the detection radius.
NoLiveInsideRadius ==
    [][(ticks' # ticks /\ lastFrame'.ran)
        => \A i \in 1..Len(meteors') :
              Abs(meteors'[i].pos) >= earthRadius + ImpactMargin]_vars


\* ------------------------------------------------ lifecycle: one cause
\* C21: a projectile leaves the live set by exactly one cause: no frame
\* both fades a projectile out and resolves an impact for it, so impactCount
\* is never incremented for a projectile removed by fading.
RemovedByOneCause ==
    \A id \in 1..MaxMeteors :
        ~(<<id, "impact">> \in removed /\ <<id, "fade">> \in removed)


\* ------------------------------------------- predictor against live tick
\* C22: the live simulation advances a projectile by the predictor's step:
\* in every Arcade frame that runs, a projectile that stays in the live set
\* has the position and velocity one iteration of the predictor's loop gives
\* from its position and velocity before the frame, at the same simSpeed.
LiveStepIsPredictorStep ==
    [][(ticks' # ticks /\ lastFrame'.ran /\ ~realistic)
        => \A i \in 1..Len(meteors) : \A j \in 1..Len(meteors') :
              meteors'[j].id = meteors[i].id
                => LET nx == PredMove(meteors[i].pos, meteors[i].velocity,
                                      simSpeed)
                   IN  /\ meteors'[j].pos = nx.pos
                       /\ meteors'[j].velocity = nx.v]_vars


\* ------------------------------------------------ the two velocities
\* C23: the two velocities of a live projectile agree: at spawn and at the
\* start of every tick physVelocity (SI) is velocity (display) times
\* SCENE_SCALE.
VelocitiesConsistent ==
    \A i \in 1..Len(meteors) :
        meteors[i].physVelocity = meteors[i].velocity * VelToSI


RECURSIVE SubstepBlock(_, _, _)
SubstepBlock(m, n, real) ==
    IF n = 0 \/ ~m.active THEN m
    ELSE SubstepBlock(Integrate(m, 1, real), n - 1, real)

RECURSIVE Substeps(_, _, _)
Substeps(m, n, real) ==
    IF n = 0 \/ ~m.active THEN m
    ELSE IF n >= 10 THEN Substeps(SubstepBlock(m, 10, real), n - 10, real)
    ELSE SubstepBlock(m, n, real)

\* C25: simSpeed multiplies the number of integrator steps of a tick, not
\* the time slice of a step: a projectile that stays in the live set through
\* a frame that runs at simSpeed s is where s steps of the fixed slice take
\* it, in position and in both velocities.
SpeedTakesMoreSteps ==
    [][(ticks' # ticks /\ lastFrame'.ran)
        => \A i \in 1..Len(meteors) : \A j \in 1..Len(meteors') :
              meteors'[j].id = meteors[i].id
                => LET ref == Substeps(meteors[i], simSpeed, realistic)
                   IN  /\ meteors'[j].pos = ref.pos
                       /\ meteors'[j].velocity = ref.velocity
                       /\ meteors'[j].physVelocity = ref.physVelocity]_vars


\* ------------------------------------------------ Realistic tick: RK4
\* Above this height (300 km, in metres) the drag term of main.js:327-332,
\* 0.5 * rho0 * exp(-h/8000) * |v| * Cd * area/mass * v, is below 0.01 cm/s^2
\* for every projectile of this model.
AtmosphereTop == 300000

\* k?v = accel * dt, k?x = vel * dt, dt = 0.02 * simSpeed (cm/s and m)
RKv(a, ss) == Trunc(a * 2 * ss, 100)

RKx(v, ss) == Trunc(Trunc(v, 50) * ss, 100)

\* the gravity term of accel (main.js:324-326), cm/s^2, p in metres
MainGravity(p) == -Sign(p) * RealG(Abs(p))

\* The realistic branch of animate in main.js (lines 316-365): one classical
\* RK4 step of position (m) and physVelocity (cm/s).  vacuum tells that the
\* projectile has a mass and all four stages lie above AtmosphereTop, where
\* accel is the gravity term; the step is computed for that case.
MainRealisticStep(m, ss) ==
    LET x   == m.pos * SCENE_SCALE
        v   == m.physVelocity
        k1v == RKv(MainGravity(x), ss)
        k1x == RKx(v, ss)
        p2  == x + Trunc(k1x, 2)
        v2  == v + Trunc(k1v, 2)
        k2v == RKv(MainGravity(p2), ss)
        k2x == RKx(v2, ss)
        p3  == x + Trunc(k2x, 2)
        v3  == v + Trunc(k2v, 2)
        k3v == RKv(MainGravity(p3), ss)
        k3x == RKx(v3, ss)
        p4  == x + k3x
        v4  == v + k3v
        k4v == RKv(MainGravity(p4), ss)
        k4x == RKx(v4, ss)
        dx  == Trunc(k1x + 2 * k2x + 2 * k3x + k4x, 6)
        dv  == Trunc(k1v + 2 * k2v + 2 * k3v + k4v, 6)
    IN  [pos          |-> Trunc(x + dx, SCENE_SCALE),
         physVelocity |-> v + dv,
         vacuum       |-> /\ m.mass > 0
                          /\ \A p \in {x, p2, p3, p4} :
                                Abs(p) >= earthRadius * SCENE_SCALE
                                            + AtmosphereTop]

\* C26: under the Realistic model a live tick is one classical RK4 step of
\* gravity and drag: a projectile that stays in the live set through a
\* Realistic frame, has a mass and stays above the atmosphere is where the
\* RK4 step takes it, to one unit of position and 2 cm/s of velocity.
RealisticTickIsRK4 ==
    [][(ticks' # ticks /\ lastFrame'.ran /\ realistic)
        => \A i \in 1..Len(meteors) : \A j \in 1..Len(meteors') :
              meteors'[j].id = meteors[i].id
                => LET ref == MainRealisticStep(meteors[i], simSpeed)
                   IN  ref.vacuum
                         => /\ Abs(meteors'[j].pos - ref.pos) <= 1
                            /\ Abs(meteors'[j].physVelocity
                                     - ref.physVelocity) <= 2]_vars


\* ------------------------------------------------ Arcade: mass is ignored
\* C27: under the Arcade model the trajectory does not depend on mass, area
\* or size: two projectiles at the same position with the same display
\* velocity before a frame are at the same position with the same velocity
\* after it, and the frame resolves an impact for both or for neither, at
\* the same point.
ArcadeIgnoresMass ==
    [][(ticks' # ticks /\ lastFrame'.ran /\ ~realistic)
        => \A i, k \in 1..Len(meteors) :
              (/\ meteors[i].pos = meteors[k].pos
               /\ meteors[i].velocity = meteors[k].velocity)
                => /\ (\E a \in 1..Len(lastImpacts') :
                           lastImpacts'[a].id = meteors[i].id)
                        <=> (\E b \in 1..Len(lastImpacts') :
                               lastImpacts'[b].id = meteors[k].id)
                   /\ \A a, b \in 1..Len(lastImpacts') :
                         (/\ lastImpacts'[a].id = meteors[i].id
                          /\ lastImpacts'[b].id = meteors[k].id)
                           => /\ lastImpacts'[a].position
                                   = lastImpacts'[b].position
                              /\ lastImpacts'[a].velocity
                                   = lastImpacts'[b].velocity
                   /\ \A a, b \in 1..Len(meteors') :
                         (/\ meteors'[a].id = meteors[i].id
                          /\ meteors'[b].id = meteors[k].id)
                           => /\ meteors'[a].pos = meteors'[b].pos
                              /\ meteors'[a].velocity
                                   = meteors'[b].velocity]_vars

\* C27 witness: two projectiles of different mass and size, launched
\* together, have been resolved as impacts by the same frame at the same
\* point, after flying through at least one frame.
ArcadeIgnoresMassWitness ==
    /\ ~realistic
    /\ Len(lastImpacts) = 2
    /\ lastImpacts[1].mass # lastImpacts[2].mass
    /\ lastImpacts[1].size # lastImpacts[2].size
    /\ lastImpacts[1].position = lastImpacts[2].position
    /\ lastImpacts[1].velocity = lastImpacts[2].velocity
    /\ Abs(lastImpacts[1].position) < earthRadius + ImpactMargin


\* ------------------------------------------------------------ labels
\* C28: the labels list holds exactly the Earth label and one label for
\* each projectile in the live set: the label of a projectile that left the
\* live set by impact, by fade-out or by Reset is no longer tracked.
LabelsTrackLive ==
    labels = {EarthLabel} \cup {MeteorLabel(meteors[i]) : i \in 1..Len(meteors)}


\* ------------------------------ spawnSelectedAsteroid across its await
\* spawnSelectedAsteroid is async: the call runs to
\* await this.fetchAsteroidDetails(selectedId) (app.js:1390), and the rest of
\* the function runs when the fetch has settled, after whatever handlers and
\* frames the event loop ran in between.
MaxPending == 2

RemoveAt(seq, k) == SubSeq(seq, 1, k - 1) \o SubSeq(seq, k + 1, Len(seq))

\* Spawn button / KeyG with an asteroid selected: the call up to the await
SpawnRequested ==
    /\ UiEvent
    /\ Len(spawns.pending) < MaxPending
    /\ spawns' = [spawns EXCEPT
                    !.pending = Append(@, [beforeReset |-> FALSE])]
    /\ UNCHANGED <<meteors, impactEffects, impactCount, simSpeed, realistic,
                   paused, camera, cursor, speed, marker, scene, labels,
                   nextId, ticks, lastImpacts, resolved, removed,
                   impactedSinceReset, seenFading, lastFaded, lastFrame,
                   pred, predLog, predFrameOk, predRuns, firstExits, aux>>

\* the details of call k arrive: the rest of the function (app.js:1391-1436)
\* builds the projectile from the camera and the marker as they are now and
\* pushes it
DetailsArrive(k) ==
    /\ k \in 1..Len(spawns.pending)
    /\ nextId <= MaxMeteors
    /\ \E c \in CatalogSet :
          /\ meteors' = Append(meteors, CatalogMeteor(nextId, c))
          /\ scene' = scene \cup MeteorObjects(CatalogMeteor(nextId, c))
          /\ labels' = labels \cup {MeteorLabel(CatalogMeteor(nextId, c))}
    /\ nextId' = nextId + 1
    /\ spawns' = [pending   |-> RemoveAt(spawns.pending, k),
                  fromStale |-> IF spawns.pending[k].beforeReset
                                THEN spawns.fromStale \cup {nextId}
                                ELSE spawns.fromStale]
    /\ UNCHANGED <<impactEffects, impactCount, simSpeed, realistic, paused,
                   camera, cursor, speed, marker, ticks, events, lastImpacts,
                   resolved, removed, impactedSinceReset, seenFading,
                   lastFaded, lastFrame, pred, predLog, predFrameOk,
                   predRuns, firstExits, aux>>

\* the fetch of call k fails and the list has no such entry:
\* if(!details) return alert(...)
DetailsMissing(k) ==
    /\ k \in 1..Len(spawns.pending)
    /\ spawns' = [spawns EXCEPT !.pending = RemoveAt(@, k)]
    /\ UNCHANGED <<meteors, impactEffects, impactCount, simSpeed, realistic,
                   paused, camera, cursor, speed, marker, scene, labels,
                   nextId, ticks, events, lastImpacts, resolved, removed,
                   impactedSinceReset, seenFading, lastFaded, lastFrame,
                   pred, predLog, predFrameOk, predRuns, firstExits, aux>>

NextSpawn ==
    \/ SpawnRequested
    \/ \E k \in 1..MaxPending : DetailsArrive(k)
    \/ \E k \in 1..MaxPending : DetailsMissing(k)
    \/ ResetScene
    \/ Fire
    \/ \E dtMs \in FrameMsSet : Animate(dtMs)

SpecSpawn == Init /\ [][NextSpawn]_vars

\* C29: a Reset is not undone by a spawn that was pending when it happened:
\* the live set holds no projectile pushed by a call of
\* spawnSelectedAsteroid that was made before a Reset and resumed after it.
ResetNotUndone ==
    \A i \in 1..Len(meteors) : meteors[i].id \notin spawns.fromStale


\* ------------------------------------------------ fetchAsteroidList
\* fetchAsteroidList(loadMore) is async (app.js:1326-1378): the call runs to
\* await fetch(url), and the rest runs when the response is there.  A page
\* of the catalog is modelled by its page number; listing counts the
\* non-loadMore calls, and each request and each appended page remembers the
\* listing it was requested for.  The API key is present.
MaxFetches == 3

\* Fetch (loadMore = FALSE) or Load More (TRUE): the call up to the await
FetchAsteroidList(loadMore) ==
    /\ catalog.calls < MaxFetches
    /\ LET c1 == IF loadMore THEN catalog
                 ELSE [catalog EXCEPT !.neoPage = 0, !.asteroidList = <<>>,
                                      !.listing = @ + 1]
       IN  catalog' = [c1 EXCEPT
                         !.calls = @ + 1,
                         !.inflight = Append(@, [page    |-> c1.neoPage,
                                                 listing |-> c1.listing])]
    /\ UNCHANGED <<appVars, resolver, loader, launcher, conv>>

\* the response of request k is there and is a page: every entry is pushed
\* on asteroidList and neoPage is incremented (app.js:1347-1375)
ListArrives(k) ==
    /\ k \in 1..Len(catalog.inflight)
    /\ catalog' = [catalog EXCEPT
                     !.asteroidList = Append(@, catalog.inflight[k]),
                     !.neoPage = @ + 1,
                     !.inflight = RemoveAt(@, k)]
    /\ UNCHANGED <<appVars, resolver, loader, launcher, conv>>

\* request k fails (network error, !res.ok, unexpected body): status text only
ListFails(k) ==
    /\ k \in 1..Len(catalog.inflight)
    /\ catalog' = [catalog EXCEPT !.inflight = RemoveAt(@, k)]
    /\ UNCHANGED <<appVars, resolver, loader, launcher, conv>>

InitCatalog ==
    /\ InitScene
    /\ InitAux
    /\ predRuns = <<>>
    /\ firstExits = <<>>

NextCatalog ==
    \/ \E loadMore \in BOOLEAN : FetchAsteroidList(loadMore)
    \/ \E k \in 1..MaxFetches : ListArrives(k)
    \/ \E k \in 1..MaxFetches : ListFails(k)

SpecCatalog == InitCatalog /\ [][NextCatalog]_vars

\* C30: whatever the overlap of the calls, no page is requested twice or
\* appended twice for one listing, neoPage is the number of pages in the
\* list, and the list holds pages of the current listing only.
PagesAppendedOnce ==
    /\ \A i, j \in 1..Len(catalog.inflight) :
          catalog.inflight[i] = catalog.inflight[j] => i = j
    /\ \A i, j \in 1..Len(catalog.asteroidList) :
          catalog.asteroidList[i] = catalog.asteroidList[j] => i = j
    /\ catalog.neoPage = Len(catalog.asteroidList)
    /\ \A i \in 1..Len(catalog.asteroidList) :
          catalog.asteroidList[i].listing = catalog.listing

====
